---------------------------- MODULE Spec2Model ----------------------------
(***************************************************************************)
(* A model of wterm's connection core (src/src/core/connection.c) and the  *)
(* helpers it uses.  Strings are sequences of one-character strings, so    *)
(* that strcmp, strstr, strlen and the bounded copies are computed as the  *)
(* C code computes them.  Every external query (popen of nmcli / iw) draws *)
(* its answer from a small set: the environment may answer anything at any *)
(* time.  Under SpecSim the manager is the simulated one of the spec's     *)
(* test plan: it reports the target active from some tick on.  SpecFn      *)
(* calls the pure helpers (validate_password, parse_nmcli_error,           *)
(* parse_network_line, shell_escape) on bounded inputs, and SpecQueue runs *)
(* the error queue of error_queue.c.  SpecTui and SpecTuiLive run the      *)
(* worker thread of the TUI's connect dialog, SpecHotspot the list of      *)
(* saved hotspots and the create flow of main.c, SpecNat hotspot_start and *)
(* hotspot_stop against the firewall, and SpecPanel the key loop of        *)
(* tui_select_network.                                                     *)
(***************************************************************************)
EXTENDS Integers, Sequences, FiniteSets, TLC

(***************************************************************************)
(* Program constants                                                       *)
(***************************************************************************)
MAX_STR_SSID == 33
ESCAPED_SSID_SIZE == 256
ESCAPED_PASSWORD_SIZE == 512
WTERM_SUCCESS == 0
WTERM_ERROR_GENERAL == 1
WTERM_ERROR_NETWORK == 2
WTERM_ERROR_INVALID_INPUT == 5
WTERM_ERROR_CANCELLED == 9
InitialWaitTicks == 20
PollIterations == 13
SleepTicks == 10
CleanupSleepTicks == 10
CleanupSettleTicks == 20
SSID_MAX_BYTES == 32
WPA_MIN_LEN == 8
WPA_MAX_LEN == 63
ERROR_QUEUE_SIZE == 32
MAX_STR_SECURITY == 17
MAX_STR_SIGNAL == 33
WTERM_ERROR_PARSE == 3

(***************************************************************************)
(* Bounds of the model                                                     *)
(***************************************************************************)
\* longest profile listing (lines of "nmcli connection show") drawn per poll
MaxListing == 2
\* longest password handed to validate_password, beyond the 63 of WPA
MaxPasswordLen == 64
\* longest run of filler bytes put in front of a phrase of an error text
MaxErrPad == 505
MaxPushes == 36
MaxClears == 1
MaxOverlong == 1
MaxEscapeSize == 12

(***************************************************************************)
(* Strings                                                                 *)
(***************************************************************************)
\* a null pointer: no C string has an element longer than one character
NULL == <<"<null>">>

\* n copies of the character c
Rep(c, n) == [k \in 1..n |-> c] \o <<>>

\* isspace() on the characters the model draws
IsSpace(c) == c \in {" ", "\t", "\n"}

is_string_empty(str) ==
    \/ str = NULL
    \/ \A k \in 1..Len(str) : IsSpace(str[k])

\* the bytes dest holds after safe_string_copy(dest, src, dest_size)
safe_string_copy(src, dest_size) ==
    IF Len(src) >= dest_size THEN SubSeq(src, 1, dest_size - 1) ELSE src

\* trim_trailing_whitespace (string_utils.c:27-34)
RECURSIVE trim_trailing_whitespace(_)
trim_trailing_whitespace(str) ==
    IF Len(str) > 0 /\ IsSpace(str[Len(str)])
    THEN trim_trailing_whitespace(SubSeq(str, 1, Len(str) - 1))
    ELSE str

\* parse_network_line (network_scanner.c:14-62): the result code and the
\* three fields of *network; network_null says the second argument is NULL
parse_network_line_mut(buffer, network_null) ==
    LET Colons == IF buffer = NULL THEN {}
                  ELSE {k \in 1..Len(buffer) : buffer[k] = ":"}
        Failed(code) == [result |-> code, ssid |-> <<>>, security |-> <<>>,
                         signal |-> <<>>]
    IN IF buffer = NULL \/ network_null THEN Failed(5)
       ELSE IF Cardinality(Colons) < 2 THEN Failed(3)
       ELSE LET first_colon == CHOOSE k \in Colons : \A j \in Colons : k <= j
                second_colon == CHOOSE k \in Colons \ {first_colon} :
                                    \A j \in Colons \ {first_colon} : k <= j
                ssid_len == IF first_colon - 1 >= 33 THEN 32
                            ELSE first_colon - 1
                security_len == second_colon - first_colon - 1
            IN [result |-> 0,
                ssid |-> trim_trailing_whitespace(SubSeq(buffer, 1, ssid_len)),
                security |-> trim_trailing_whitespace(
                    SubSeq(buffer, first_colon + 1,
                           first_colon + (IF security_len >= 17 THEN 16
                                          ELSE security_len))),
                signal |-> trim_trailing_whitespace(
                    safe_string_copy(
                        SubSeq(buffer, second_colon + 1, Len(buffer)), 33))]

parse_network_line(buffer, network_null) ==
    LET Colons == IF buffer = NULL THEN {}
                  ELSE {k \in 1..Len(buffer) : buffer[k] = ":"}
        Failed(code) == [result |-> code, ssid |-> <<>>, security |-> <<>>,
                         signal |-> <<>>]
    IN IF buffer = NULL \/ network_null THEN Failed(WTERM_ERROR_INVALID_INPUT)
       ELSE IF Cardinality(Colons) < 2 THEN Failed(WTERM_ERROR_PARSE)
       ELSE LET first_colon == CHOOSE k \in Colons : \A j \in Colons : k <= j
                second_colon == CHOOSE k \in Colons \ {first_colon} :
                                    \A j \in Colons \ {first_colon} : k <= j
                ssid_len == IF first_colon - 1 >= MAX_STR_SSID
                            THEN MAX_STR_SSID - 1 ELSE first_colon - 1
                security_len == second_colon - first_colon - 1
            IN [result |-> WTERM_SUCCESS,
                ssid |-> trim_trailing_whitespace(SubSeq(buffer, 1, ssid_len)),
                security |->
                    IF security_len > 0
                    THEN trim_trailing_whitespace(
                             SubSeq(buffer, first_colon + 1,
                                    first_colon +
                                        (IF security_len >= MAX_STR_SECURITY
                                         THEN MAX_STR_SECURITY - 1
                                         ELSE security_len)))
                    ELSE trim_trailing_whitespace(
                             safe_string_copy(<<"O", "p", "e", "n">>,
                                              MAX_STR_SECURITY)),
                signal |-> trim_trailing_whitespace(
                    safe_string_copy(
                        SubSeq(buffer, second_colon + 1, Len(buffer)),
                        MAX_STR_SIGNAL))]

\* strstr(haystack, needle) != NULL
StrStr(haystack, needle) ==
    \E k \in 0..(Len(haystack) - Len(needle)) :
        SubSeq(haystack, k + 1, k + Len(needle)) = needle

validate_ssid_mut(s) ==
    /\ s # NULL
    /\ ~(Len(s) = 0 \/ Len(s) > SSID_MAX_BYTES + 1)

validate_ssid(s) ==
    /\ s # NULL
    /\ ~(Len(s) = 0 \/ Len(s) > SSID_MAX_BYTES)

RECURSIVE EscapeFrom(_, _, _, _)
EscapeFrom(input, k, out, output_size) ==
    IF k > Len(input)
    THEN IF Len(out) >= output_size - 1
         THEN [ok |-> FALSE, out |-> out]
         ELSE [ok |-> TRUE, out |-> Append(out, "'")]
    ELSE IF input[k] = "'"
         THEN IF Len(out) + 4 >= output_size - 1
              THEN [ok |-> FALSE, out |-> out]
              ELSE EscapeFrom(input, k + 1, out \o <<"'", "\\", "'", "'">>,
                              output_size)
         ELSE IF Len(out) >= output_size - 1
              THEN [ok |-> FALSE, out |-> out]
              ELSE EscapeFrom(input, k + 1, Append(out, input[k]), output_size)

shell_escape_mut(input, output_size) ==
    IF input = NULL \/ output_size < 3
    THEN [ok |-> FALSE, out |-> <<>>]
    ELSE [ok |-> Len(input) + 2 < output_size,
          out |-> <<"'">> \o input \o <<"'">>]

shell_escape(input, output_size) ==
    IF input = NULL \/ output_size < 3
    THEN [ok |-> FALSE, out |-> <<>>]
    ELSE EscapeFrom(input, 1, <<"'">>, output_size)

S_WPA == <<"W", "P", "A">>
S_WEP == <<"W", "E", "P">>
S_Enterprise == <<"E", "n", "t", "e", "r", "p", "r", "i", "s", "e">>
S_WPA2 == <<"W", "P", "A", "2">>
S_Open == <<"O", "p", "e", "n">>

network_requires_password(sec) ==
    IF sec = NULL \/ is_string_empty(sec)
    THEN FALSE
    ELSE StrStr(sec, S_WPA) \/ StrStr(sec, S_WEP) \/ StrStr(sec, S_Enterprise)

validate_password_mut(pw, sec) ==
    IF pw = NULL THEN FALSE
    ELSE IF sec = NULL \/ is_string_empty(sec) THEN TRUE
    ELSE IF StrStr(sec, S_WPA) THEN Len(pw) >= WPA_MIN_LEN /\ Len(pw) < WPA_MAX_LEN
    ELSE IF StrStr(sec, S_WEP) THEN Len(pw) \in {5, 13, 16, 29}
    ELSE Len(pw) > 0

validate_password(pw, sec) ==
    IF pw = NULL THEN FALSE
    ELSE IF sec = NULL \/ is_string_empty(sec) THEN TRUE
    ELSE IF StrStr(sec, S_WPA) THEN Len(pw) >= WPA_MIN_LEN /\ Len(pw) <= WPA_MAX_LEN
    ELSE IF StrStr(sec, S_WEP) THEN Len(pw) \in {5, 13, 16, 29}
    ELSE Len(pw) > 0

(***************************************************************************)
(* parse_nmcli_error                                                       *)
(***************************************************************************)
UpperCase == <<"A", "B", "C", "D", "E", "F", "G", "H", "I", "J", "K", "L", "M",
               "N", "O", "P", "Q", "R", "S", "T", "U", "V", "W", "X", "Y", "Z">>
LowerCase == <<"a", "b", "c", "d", "e", "f", "g", "h", "i", "j", "k", "l", "m",
               "n", "o", "p", "q", "r", "s", "t", "u", "v", "w", "x", "y", "z">>

tolower(c) ==
    IF \E k \in 1..26 : UpperCase[k] = c
    THEN LowerCase[CHOOSE k \in 1..26 : UpperCase[k] = c]
    ELSE c

ToLowerStr(s) == [k \in 1..Len(s) |-> tolower(s[k])]

P_authentication == <<"a", "u", "t", "h", "e", "n", "t", "i", "c", "a", "t", "i", "o", "n">>
P_invalid_key == <<"i", "n", "v", "a", "l", "i", "d", " ", "k", "e", "y">>
P_wrong_password == <<"w", "r", "o", "n", "g", " ", "p", "a", "s", "s", "w", "o", "r", "d">>
P_psk == <<"p", "s", "k">>
P_no_network == <<"n", "o", " ", "n", "e", "t", "w", "o", "r", "k">>
P_not_found == <<"n", "o", "t", " ", "f", "o", "u", "n", "d">>
P_unavailable == <<"u", "n", "a", "v", "a", "i", "l", "a", "b", "l", "e">>
P_timeout == <<"t", "i", "m", "e", "o", "u", "t">>
P_timed_out == <<"t", "i", "m", "e", "d", " ", "o", "u", "t">>
P_permission_denied == <<"p", "e", "r", "m", "i", "s", "s", "i", "o", "n", " ", "d", "e", "n", "i", "e", "d">>
P_not_authorized == <<"n", "o", "t", " ", "a", "u", "t", "h", "o", "r", "i", "z", "e", "d">>
P_wifi == <<"w", "i", "f", "i">>
P_disabled == <<"d", "i", "s", "a", "b", "l", "e", "d">>
P_off == <<"o", "f", "f">>
P_networkmanager == <<"n", "e", "t", "w", "o", "r", "k", "m", "a", "n", "a", "g", "e", "r">>
P_nm_dash == <<"n", "m", "-">>
P_dhcp == <<"d", "h", "c", "p">>
P_ip_address == <<"i", "p", " ", "a", "d", "d", "r", "e", "s", "s">>

parse_nmcli_error_mut(error_output) ==
    IF error_output = NULL THEN "CONN_ERROR_UNKNOWN"
    ELSE LET e == ToLowerStr(safe_string_copy(error_output, 512)) IN
      IF StrStr(e, P_timeout) \/ StrStr(e, P_timed_out)
      THEN "CONN_ERROR_TIMEOUT"
      ELSE IF StrStr(e, P_authentication) \/ StrStr(e, P_invalid_key)
         \/ StrStr(e, P_wrong_password) \/ StrStr(e, P_psk)
      THEN "CONN_ERROR_AUTH_FAILED"
      ELSE IF StrStr(e, P_no_network) \/ StrStr(e, P_not_found)
              \/ StrStr(e, P_unavailable)
      THEN "CONN_ERROR_NETWORK_UNAVAILABLE"
      ELSE IF StrStr(e, P_permission_denied) \/ StrStr(e, P_not_authorized)
      THEN "CONN_ERROR_PERMISSION_DENIED"
      ELSE IF StrStr(e, P_wifi) /\ (StrStr(e, P_disabled) \/ StrStr(e, P_off))
      THEN "CONN_ERROR_WIFI_DISABLED"
      ELSE IF StrStr(e, P_networkmanager) \/ StrStr(e, P_nm_dash)
      THEN "CONN_ERROR_NETWORKMANAGER_NOT_RUNNING"
      ELSE IF StrStr(e, P_dhcp) \/ StrStr(e, P_ip_address)
      THEN "CONN_ERROR_DHCP_TIMEOUT"
      ELSE "CONN_ERROR_UNKNOWN"

parse_nmcli_error(error_output) ==
    IF error_output = NULL THEN "CONN_ERROR_UNKNOWN"
    ELSE LET e == ToLowerStr(safe_string_copy(error_output, 512)) IN
      IF StrStr(e, P_authentication) \/ StrStr(e, P_invalid_key)
         \/ StrStr(e, P_wrong_password) \/ StrStr(e, P_psk)
      THEN "CONN_ERROR_AUTH_FAILED"
      ELSE IF StrStr(e, P_no_network) \/ StrStr(e, P_not_found)
              \/ StrStr(e, P_unavailable)
      THEN "CONN_ERROR_NETWORK_UNAVAILABLE"
      ELSE IF StrStr(e, P_timeout) \/ StrStr(e, P_timed_out)
      THEN "CONN_ERROR_TIMEOUT"
      ELSE IF StrStr(e, P_permission_denied) \/ StrStr(e, P_not_authorized)
      THEN "CONN_ERROR_PERMISSION_DENIED"
      ELSE IF StrStr(e, P_wifi) /\ (StrStr(e, P_disabled) \/ StrStr(e, P_off))
      THEN "CONN_ERROR_WIFI_DISABLED"
      ELSE IF StrStr(e, P_networkmanager) \/ StrStr(e, P_nm_dash)
      THEN "CONN_ERROR_NETWORKMANAGER_NOT_RUNNING"
      ELSE IF StrStr(e, P_dhcp) \/ StrStr(e, P_ip_address)
      THEN "CONN_ERROR_DHCP_TIMEOUT"
      ELSE "CONN_ERROR_UNKNOWN"

(***************************************************************************)
(* State                                                                   *)
(***************************************************************************)
VARIABLES
    connection_cancelled,  \* the global flag of connection.c:24
    pc,                    \* position of the running call
    ret,                   \* where get_connection_status returns to
    op,                    \* the public function being executed
    arg,                   \* its arguments (and the caller's security field)
    result,                \* connection_result_t / wterm_result_t returned
    status,                \* connection_status_t being built or last returned
    loc,                   \* locals: loop counters, cleanup flags, nmcli output
    obs,                   \* history of what was issued and reported
    sim,                   \* the simulated manager (SpecSim only)
    tick,                  \* 100 ms intervals slept since the connect command
    fn,                    \* the last call of a helper: name, arguments, results
    eq,                    \* the error queue of error_queue.c
    ui,                    \* handle_connect_action and its worker thread
    hs,                    \* the hotspot manager and the packet filter
    sel                    \* the panels of the TUI main loop

\* the state outside the connection core
otherVars == <<fn, eq, ui, hs, sel>>

vars == <<connection_cancelled, pc, ret, op, arg, result, status, loc, obs,
          sim, tick, fn, eq, ui, hs, sel>>

connVars == <<connection_cancelled, pc, ret, op, arg, result, status, loc, obs,
              sim, tick>>

NoCall == [name |-> "none"]

NoPanel == [active |-> "none"]

\* static error_queue_t global_error_queue and its initialized flag, before
\* error_queue_init()
\* the static error_queue (error_queue.c:26-38) with what the callers have
\* seen of it: pushed and clears count the calls, fifo is the sequence of
\* messages a first-in-first-out queue of ERROR_QUEUE_SIZE places would hold,
\* and last is the outcome of the pop that has just returned
NoQueue ==
    [initialized |-> FALSE, head |-> 0, tail |-> 0, count |-> 0,
     entries |-> [k \in 0..(ERROR_QUEUE_SIZE - 1) |-> 0],
     pushed |-> 0, clears |-> 0, fifo |-> <<>>,
     last |-> [op |-> "none"]]

ZeroStatus ==
    [is_connected |-> FALSE, connected_ssid |-> <<>>, connection_name |-> <<>>,
     ip_address |-> <<>>, kernel_associated |-> FALSE, kernel_ssid |-> <<>>,
     is_zombie |-> FALSE]

ZeroResult ==
    [result |-> WTERM_SUCCESS, error_type |-> "CONN_ERROR_NONE",
     connected |-> FALSE]

ZeroLoc ==
    [i |-> 0, j |-> 0, cleanup_result |-> WTERM_SUCCESS,
     kernel_associated |-> FALSE, is_connected |-> FALSE,
     still_associated |-> FALSE]

NoView ==
    [nm |-> FALSE, nmSsid |-> <<>>, iwOk |-> FALSE, iwSsid |-> <<>>,
     ipOk |-> FALSE, hasIp |-> FALSE]

NoToggle == [site |-> "none", kernel |-> FALSE, nm |-> FALSE]

ZeroObs ==
    [nConnectCmds |-> 0, cmdKind |-> "none", savedWifi |-> FALSE,
     extIssued |-> FALSE, cancelReset |-> FALSE, staleCancel |-> FALSE,
     cancelRequested |-> FALSE,
     cancelAt |-> -1, exitPath |-> "none", lastToggle |-> NoToggle,
     queried |-> {},
     kernelReport |-> FALSE, pollView |-> NoView, listing |-> <<>>]

NoArg == [ssid |-> NULL, password |-> NULL, security |-> NULL, caller |-> "none"]

\* handle_connect_action is not running: no thread_data, no worker
NoUi ==
    [phase |-> "list", stored |-> FALSE, is_done |-> 0, exited |-> FALSE,
     cancelled_by_user |-> FALSE,
     used |-> [written |-> FALSE, value |-> ZeroResult]]

(***************************************************************************)
(* Inputs and the answers of the external tools                            *)
(***************************************************************************)
SsidA == <<"a">>
SsidAB == <<"a", "b">>
SsidQuote == <<"b", "'">>
IpText == <<"1">>

SsidInputs ==
    {NULL, <<>>, <<" ">>, SsidA, SsidQuote, Rep("a", SSID_MAX_BYTES),
     Rep("a", SSID_MAX_BYTES + 1)}

PasswordInputs ==
    {NULL, <<>>, Rep("p", 3), Rep("p", WPA_MIN_LEN)}

\* what fzf_get_password hands back: any non-empty text
TypedPasswords == {Rep("p", 3), Rep("p", WPA_MIN_LEN)}

\* the security field of a scanned network (parse_network_line)
Securities == {S_Open, S_WPA2, S_WEP}

\* "nmcli -t -f NAME,TYPE,DEVICE connection show --active", then
\* "nmcli -t -f ACTIVE,SSID device wifi list" and the IP4.ADDRESS query
NmDown == [popen_ok |-> FALSE, wifi |-> FALSE, name |-> <<>>, ssid |-> <<>>,
           ip |-> <<>>]
NmIdle == [popen_ok |-> TRUE, wifi |-> FALSE, name |-> <<>>, ssid |-> <<>>,
           ip |-> <<>>]
NmActive(ssid, ip) ==
    [popen_ok |-> TRUE, wifi |-> TRUE, name |-> SsidA, ssid |-> ssid, ip |-> ip]

\* an empty ssid or ip is a follow-up query that failed or found nothing
FreeNmViews ==
    {NmDown, NmIdle, NmActive(SsidA, IpText), NmActive(SsidAB, IpText),
     NmActive(SsidA, <<>>), NmActive(<<>>, IpText)}

SimNmView ==
    IF sim.up
    THEN [popen_ok |-> TRUE, wifi |-> TRUE, name |-> arg.ssid,
          ssid |-> arg.ssid, ip |-> IpText]
    ELSE NmIdle

NmViews == IF sim.mode THEN {SimNmView} ELSE FreeNmViews

\* "iw dev <if> link": iw_check_association and, when associated,
\* iw_get_connected_ssid
FreeKernelViews ==
    {[rc_ok |-> FALSE, assoc |-> FALSE, ssid |-> <<>>],
     [rc_ok |-> TRUE, assoc |-> FALSE, ssid |-> <<>>]} \cup
    [rc_ok : {TRUE}, assoc : {TRUE}, ssid : {<<>>, SsidA}]

\* the simulated link layer agrees with the simulated manager
SimKernelView ==
    IF sim.up
    THEN [rc_ok |-> TRUE, assoc |-> TRUE, ssid |-> arg.ssid]
    ELSE [rc_ok |-> TRUE, assoc |-> FALSE, ssid |-> <<>>]

KernelViews == IF sim.mode THEN {SimKernelView} ELSE FreeKernelViews

\* iw_get_connected_ssid(wifi_interface, iw_ssid, MAX_STR_SSID) in the poll
FreeIwSsidAnswers ==
    [rc : {WTERM_SUCCESS, WTERM_ERROR_GENERAL}, ssid : {<<>>, SsidA, SsidAB}]

SimIwSsidAnswer ==
    IF sim.up
    THEN [rc |-> WTERM_SUCCESS, ssid |-> arg.ssid]
    ELSE [rc |-> WTERM_ERROR_GENERAL, ssid |-> <<>>]

IwSsidAnswers == IF sim.mode THEN {SimIwSsidAnswer} ELSE FreeIwSsidAnswers

\* interface_has_ip_address(wifi_interface, &has_ip)
IpAnswers == [rc : {WTERM_SUCCESS, WTERM_ERROR_GENERAL}, has_ip : BOOLEAN]

St_activated == <<"a", "c", "t", "i", "v", "a", "t", "e", "d">>
St_activating == <<"a", "c", "t", "i", "v", "a", "t", "i", "n", "g">>
St_deactivating == <<"d", "e", "a", "c", "t", "i", "v", "a", "t", "i", "n", "g">>
P_deactivat == <<"d", "e", "a", "c", "t", "i", "v", "a", "t">>

\* lines NAME:STATE of "nmcli -t -f NAME,STATE connection show"
ProfileLines ==
    [name : {SsidA, SsidAB},
     state : {St_activated, St_activating, St_deactivating}]

FreeProfileListings ==
    UNION {[1..n -> ProfileLines] : n \in 0..MaxListing}

\* the simulated manager lists the target's profile as activating until it
\* is up
SimProfileListing ==
    << [name |-> arg.ssid,
        state |-> IF sim.up THEN St_activated ELSE St_activating] >>

ProfileListings ==
    IF sim.mode THEN {SimProfileListing} ELSE FreeProfileListings

\* lines NAME:TYPE of "nmcli -t -f NAME,TYPE connection show"
SavedLines ==
    {[name |-> SsidA, type |-> "802-11-wireless"],
     [name |-> SsidA, type |-> "802-3-ethernet"],
     [name |-> SsidAB, type |-> "802-11-wireless"]}

SavedListings == SUBSET SavedLines

\* exit code and captured output of the connect command
T_timeout == <<"E", "r", "r", "o", "r", ":", " ", "T", "i", "m", "e", "o", "u", "t">>
CmdOutcomes ==
    {[exit_code |-> 0, error_output |-> <<>>],
     [exit_code |-> 1, error_output |-> <<>>],
     [exit_code |-> 1, error_output |-> T_timeout]}

(***************************************************************************)
(* Shared steps                                                            *)
(***************************************************************************)
\* nanosleep / sleep of n intervals.  The polling clock runs once the connect
\* command has returned; the simulated manager may come up at any tick of it.
Sleep(n) ==
    IF sim.mode /\ obs.nConnectCmds > 0
    THEN /\ tick' = tick + n
         /\ \/ sim' = sim
            \/ /\ ~sim.up
               /\ \E t \in (tick + 1)..(tick + n) :
                      sim' = [sim EXCEPT !.up = TRUE, !.at = t]
    ELSE UNCHANGED <<tick, sim>>

\* safe_exec_check returns a bool; recover_from_zombie_connection stores it in
\* a wterm_result_t: true becomes 1, false becomes 0
BoolAsResult(ok) == IF ok THEN 1 ELSE 0

is_connection_cancelled == connection_cancelled # 0

\* init_connection_cancel (connection.c:26-28): the value it stores in the flag
init_connection_cancel_mut == connection_cancelled
init_connection_cancel == 0

Toggle(site, kernel, nm) == [site |-> site, kernel |-> kernel, nm |-> nm]

\* the call of get_connection_status(): status = {0}
CallStatus(back) ==
    /\ status' = ZeroStatus
    /\ pc' = "g_nm"
    /\ ret' = back

(***************************************************************************)
(* get_connection_status (connection.c:525-681)                            *)
(***************************************************************************)
\* the first popen plus, when a WiFi profile is active, the SSID and IP queries
StatusFromManager(st, v) ==
    IF v.wifi
    THEN [st EXCEPT !.is_connected = TRUE,
                    !.connection_name = safe_string_copy(v.name, MAX_STR_SSID),
                    !.connected_ssid = safe_string_copy(v.ssid, MAX_STR_SSID),
                    !.ip_address = safe_string_copy(v.ip, 16)]
    ELSE st

StatusQueryManager ==
    /\ pc = "g_nm"
    /\ \E v \in NmViews :
         /\ obs' = [obs EXCEPT !.extIssued = TRUE, !.queried = {"nm"},
                               !.kernelReport = FALSE]
         /\ IF ~v.popen_ok
            THEN /\ status' = ZeroStatus
                 /\ pc' = ret
                 /\ ret' = "none"
            ELSE /\ status' = StatusFromManager(ZeroStatus, v)
                 /\ pc' = "g_iw"
                 /\ ret' = ret
    /\ UNCHANGED <<connection_cancelled, op, arg, result, loc, sim, tick>>
    /\ UNCHANGED otherVars

ZombieOf(kernel_associated, is_connected) == kernel_associated /\ ~is_connected

StatusQueryKernel ==
    /\ pc = "g_iw"
    /\ \E k \in KernelViews :
         /\ obs' = [obs EXCEPT !.queried = @ \cup {"iw"},
                               !.kernelReport = k.assoc]
         /\ status' = [status EXCEPT
                 !.kernel_associated = k.assoc,
                 !.kernel_ssid = IF k.assoc THEN k.ssid ELSE <<>>,
                 !.is_zombie = ZombieOf(k.assoc, status.is_connected)]
         /\ IF ZombieOf(k.assoc, status.is_connected)
            THEN pc' = "g_rec1" /\ ret' = ret
            ELSE pc' = ret /\ ret' = "none"
    /\ UNCHANGED <<connection_cancelled, op, arg, result, loc, sim, tick>>
    /\ UNCHANGED otherVars

\* recover_from_zombie_connection: "nmcli device set <if> managed no"
RecoverUnmanage ==
    /\ pc = "g_rec1"
    /\ \E ok \in BOOLEAN :
         /\ obs' = [obs EXCEPT !.lastToggle =
                      Toggle("get_connection_status",
                             status.kernel_associated, status.is_connected)]
         /\ IF BoolAsResult(ok) # WTERM_SUCCESS
            THEN pc' = ret /\ ret' = "none" /\ UNCHANGED <<tick, sim>>
            ELSE pc' = "g_rec2" /\ ret' = ret /\ Sleep(10)
    /\ UNCHANGED <<connection_cancelled, op, arg, result, status, loc>>
    /\ UNCHANGED otherVars

\* recover_from_zombie_connection: "nmcli device set <if> managed yes"
RecoverManage ==
    /\ pc = "g_rec2"
    /\ \E ok \in BOOLEAN :
         IF BoolAsResult(ok) # WTERM_SUCCESS
         THEN pc' = ret /\ ret' = "none" /\ UNCHANGED <<tick, sim>>
         ELSE pc' = "g_requery" /\ ret' = ret /\ Sleep(20)
    /\ UNCHANGED <<connection_cancelled, op, arg, result, status, loc, obs>>
    /\ UNCHANGED otherVars

RequeryMut(st, v) ==
    IF v.popen_ok /\ v.wifi
    THEN StatusFromManager(st, v)
    ELSE st

\* the re-check after a recovery that returned WTERM_SUCCESS
Requery(st, v) ==
    IF v.popen_ok /\ v.wifi
    THEN [StatusFromManager(st, v) EXCEPT !.is_zombie = FALSE]
    ELSE st

StatusRequery ==
    /\ pc = "g_requery"
    /\ \E v \in NmViews : status' = Requery(status, v)
    /\ pc' = ret
    /\ ret' = "none"
    /\ UNCHANGED <<connection_cancelled, op, arg, result, loc, obs, sim, tick>>
    /\ UNCHANGED otherVars

(***************************************************************************)
(* Calls of the status and disconnect entry points                         *)
(***************************************************************************)
Fresh == /\ result' = ZeroResult
         /\ loc' = ZeroLoc
         /\ obs' = ZeroObs
         /\ tick' = 0
         /\ sim' = [sim EXCEPT !.up = FALSE, !.at = -1]

CallGetConnectionStatus ==
    /\ pc = "idle"
    /\ op' = "status"
    /\ arg' = NoArg
    /\ CallStatus("done")
    /\ Fresh
    /\ UNCHANGED connection_cancelled
    /\ UNCHANGED otherVars

CallDisconnect ==
    /\ pc = "idle"
    /\ op' = "disconnect"
    /\ arg' = NoArg
    /\ CallStatus("d_down")
    /\ Fresh
    /\ UNCHANGED connection_cancelled
    /\ UNCHANGED otherVars

(***************************************************************************)
(* disconnect_current_network (connection.c:683-785)                       *)
(***************************************************************************)
\* "nmcli connection down <name>" when a profile is active, then
\* "nmcli device disconnect <if>", then sleep(1)
DisconnectDown ==
    /\ pc = "d_down"
    /\ pc' = "d_check"
    /\ Sleep(10)
    /\ UNCHANGED <<connection_cancelled, ret, op, arg, result, status, loc, obs>>
    /\ UNCHANGED otherVars

\* line 742: the reset is decided on the kernel's answer alone
DisconnectToggle(still, nm) == still

\* iw_check_association, then "managed no" when still associated
DisconnectCheck ==
    /\ pc = "d_check"
    /\ \E k \in KernelViews :
         /\ loc' = [loc EXCEPT !.still_associated = k.assoc]
         /\ IF DisconnectToggle(k.assoc, status.is_connected)
            THEN /\ obs' = [obs EXCEPT !.lastToggle =
                           Toggle("disconnect_current_network", k.assoc,
                                  status.is_connected)]
                 /\ pc' = "d_manage"
                 /\ ret' = ret
                 /\ status' = status
                 /\ Sleep(10)
            ELSE /\ obs' = obs
                 /\ CallStatus("d_verify")
                 /\ UNCHANGED <<tick, sim>>
    /\ UNCHANGED <<connection_cancelled, op, arg, result>>
    /\ UNCHANGED otherVars

\* "managed yes", sleep(1), then the final get_connection_status()
DisconnectManage ==
    /\ pc = "d_manage"
    /\ CallStatus("d_verify")
    /\ Sleep(10)
    /\ UNCHANGED <<connection_cancelled, op, arg, result, loc, obs>>
    /\ UNCHANGED otherVars

DisconnectResultMut(is_connected, still_associated) ==
    IF is_connected THEN WTERM_ERROR_NETWORK ELSE WTERM_SUCCESS

\* lines 773-784: the two tests of the final verification
DisconnectResult(is_connected, still_associated) ==
    IF is_connected THEN WTERM_ERROR_NETWORK
    ELSE IF still_associated THEN WTERM_ERROR_NETWORK
    ELSE WTERM_SUCCESS

\* final verification: manager view, then the kernel once more
DisconnectVerify ==
    /\ pc = "d_verify"
    /\ \E k \in KernelViews :
         /\ loc' = [loc EXCEPT !.still_associated =
                       IF status.is_connected THEN @ ELSE k.assoc]
         /\ result' = [result EXCEPT !.result =
                          DisconnectResult(status.is_connected, k.assoc)]
    /\ pc' = "done"
    /\ UNCHANGED <<connection_cancelled, ret, op, arg, status, obs, sim, tick>>
    /\ UNCHANGED otherVars

(***************************************************************************)
(* Connect attempts: connect_to_open_network, connect_to_secured_network   *)
(***************************************************************************)
StartConnect(kind, s, p, sec, who) ==
    /\ pc = "idle"
    /\ op' = kind
    /\ arg' = [ssid |-> s, password |-> p, security |-> sec, caller |-> who]
    /\ pc' = "c_validate"
    /\ ret' = "none"
    /\ status' = ZeroStatus
    /\ Fresh
    /\ UNCHANGED connection_cancelled
    /\ UNCHANGED otherVars

\* a direct call, as connection_thread_func and the tests make it
CallConnectOpen ==
    \E s \in SsidInputs : StartConnect("open", s, NULL, NULL, "api")

CallConnectSecured ==
    \E s \in SsidInputs, p \in PasswordInputs :
        StartConnect("secured", s, p, NULL, "api")

\* handle_fzf_mode (main.c:143-160): the selected network's security field
\* decides which entry point is called; the password is whatever was typed
HandleFzfConnect ==
    \E sec \in Securities, p \in TypedPasswords :
        IF network_requires_password(sec)
        THEN StartConnect("secured", SsidA, p, sec, "fzf")
        ELSE StartConnect("open", SsidA, NULL, sec, "fzf")

\* the simulated run of SpecSim: an open network, target SsidA
CallSimConnect == StartConnect("open", SsidA, NULL, NULL, "api")

Finish(code, etype, connected, path) ==
    /\ result' = [result |-> code, error_type |-> etype, connected |-> connected]
    /\ pc' = "done"
    /\ obs' = [obs EXCEPT !.exitPath = path]

\* lines 413-424 / 462-473
ConnectValidate ==
    /\ pc = "c_validate"
    /\ IF arg.ssid = NULL \/ is_string_empty(arg.ssid)
       THEN Finish(WTERM_ERROR_INVALID_INPUT, "CONN_ERROR_NONE", FALSE, "invalid_ssid")
       ELSE IF ~validate_ssid(arg.ssid)
       THEN Finish(WTERM_ERROR_INVALID_INPUT, "CONN_ERROR_NONE", FALSE, "invalid_ssid")
       ELSE pc' = "c_init" /\ UNCHANGED <<result, obs>>
    /\ UNCHANGED <<connection_cancelled, ret, op, arg, status, loc, sim, tick>>
    /\ UNCHANGED otherVars

\* lines 426-435 / 475-484: init_connection_cancel(), then shell_escape
ConnectInit ==
    /\ pc = "c_init"
    /\ connection_cancelled' = init_connection_cancel
    /\ IF ~shell_escape(arg.ssid, ESCAPED_SSID_SIZE).ok
       THEN /\ result' = [ZeroResult EXCEPT !.result = WTERM_ERROR_INVALID_INPUT]
            /\ pc' = "done"
            /\ obs' = [obs EXCEPT !.cancelReset = TRUE,
                                  !.staleCancel = is_connection_cancelled
                                                  /\ ~obs.cancelRequested,
                                  !.exitPath = "escape_failed"]
       ELSE /\ pc' = "cz_check"
            /\ result' = result
            /\ obs' = [obs EXCEPT !.cancelReset = TRUE,
                                  !.staleCancel = is_connection_cancelled
                                                  /\ ~obs.cancelRequested]
    /\ UNCHANGED <<ret, op, arg, status, loc, sim, tick>>
    /\ UNCHANGED otherVars

(***************************************************************************)
(* cleanup_zombie_before_connect (connection.c:239-408)                    *)
(***************************************************************************)
CleanupReturn(code) ==
    /\ loc' = [ZeroLoc EXCEPT !.cleanup_result = code]
    /\ pc' = "c_after_cleanup"

\* lines 240-253: iw_check_association
CleanupCheckKernel ==
    /\ pc = "cz_check"
    /\ \E k \in KernelViews :
         IF ~k.assoc
         THEN CleanupReturn(WTERM_SUCCESS)
         ELSE /\ loc' = [loc EXCEPT !.kernel_associated = TRUE]
              /\ pc' = "cz_nm"
    /\ obs' = [obs EXCEPT !.extIssued = TRUE]
    /\ UNCHANGED <<connection_cancelled, ret, op, arg, result, status, sim, tick>>
    /\ UNCHANGED otherVars

\* lines 255-344: the manager's view, the zombie test, the cancel test and the
\* device-level disconnect.  Step 1 (connection down) needs is_connected, which
\* a zombie never has, so it issues nothing.
CleanupQueryManager ==
    /\ pc = "cz_nm"
    /\ \E v \in NmViews :
         LET is_connected == v.popen_ok /\ v.wifi
             is_zombie == ZombieOf(loc.kernel_associated, is_connected)
         IN IF ~is_zombie
            THEN CleanupReturn(WTERM_SUCCESS)
            ELSE IF is_connection_cancelled
            THEN CleanupReturn(WTERM_ERROR_CANCELLED)
            ELSE /\ loc' = [loc EXCEPT !.is_connected = is_connected, !.i = 0]
                 /\ pc' = "cz_sleep1"
    /\ UNCHANGED <<connection_cancelled, ret, op, arg, result, status, obs, sim, tick>>
    /\ UNCHANGED otherVars

\* lines 346-370: after the first sleep, the kernel's answer decides the reset
CleanupAfterDisconnect ==
    /\ pc = "cz_sleep1"
    /\ ~(loc.i < CleanupSleepTicks /\ ~is_connection_cancelled)
    /\ IF is_connection_cancelled
       THEN CleanupReturn(WTERM_ERROR_CANCELLED) /\ obs' = obs
       ELSE \E k \in KernelViews :
              /\ loc' = [loc EXCEPT !.still_associated = k.assoc, !.i = 0]
              /\ IF k.assoc
                 THEN /\ pc' = "cz_sleep2"
                      /\ obs' = [obs EXCEPT !.lastToggle =
                            Toggle("cleanup_zombie_before_connect", k.assoc,
                                   loc.is_connected)]
                 ELSE pc' = "cz_final" /\ obs' = obs
    /\ UNCHANGED <<connection_cancelled, ret, op, arg, result, status, sim, tick>>
    /\ UNCHANGED otherVars

\* lines 372-389: "managed yes" unless cancelled meanwhile
CleanupAfterUnmanage ==
    /\ pc = "cz_sleep2"
    /\ ~(loc.i < CleanupSleepTicks /\ ~is_connection_cancelled)
    /\ IF is_connection_cancelled
       THEN CleanupReturn(WTERM_ERROR_CANCELLED)
       ELSE loc' = [loc EXCEPT !.i = 0] /\ pc' = "cz_sleep3"
    /\ UNCHANGED <<connection_cancelled, ret, op, arg, result, status, obs, sim, tick>>
    /\ UNCHANGED otherVars

\* lines 391-398
CleanupAfterManage ==
    /\ pc = "cz_sleep3"
    /\ ~(loc.i < CleanupSettleTicks /\ ~is_connection_cancelled)
    /\ IF is_connection_cancelled
       THEN CleanupReturn(WTERM_ERROR_CANCELLED)
       ELSE loc' = [loc EXCEPT !.i = 0] /\ pc' = "cz_final"
    /\ UNCHANGED <<connection_cancelled, ret, op, arg, result, status, obs, sim, tick>>
    /\ UNCHANGED otherVars

\* lines 400-407: final verification
CleanupFinal ==
    /\ pc = "cz_final"
    /\ \E k \in KernelViews :
         IF k.assoc
         THEN CleanupReturn(WTERM_ERROR_NETWORK)
         ELSE CleanupReturn(WTERM_SUCCESS)
    /\ UNCHANGED <<connection_cancelled, ret, op, arg, result, status, obs, sim, tick>>
    /\ UNCHANGED otherVars

\* lines 438-443 / 487-492
ConnectAfterCleanup ==
    /\ pc = "c_after_cleanup"
    /\ IF loc.cleanup_result # WTERM_SUCCESS
       THEN Finish(WTERM_ERROR_NETWORK, "CONN_ERROR_NONE", FALSE, "cleanup_failed")
       ELSE pc' = "c_cmd" /\ UNCHANGED <<result, obs>>
    /\ UNCHANGED <<connection_cancelled, ret, op, arg, status, loc, sim, tick>>
    /\ UNCHANGED otherVars

(***************************************************************************)
(* The connect command (connection.c:445-456 / 494-522, 82-104)            *)
(***************************************************************************)
\* connection_exists: a line NAME:TYPE with the WiFi type and the SSID as name
connection_exists(listing, s) ==
    IF s = NULL \/ is_string_empty(s)
    THEN FALSE
    ELSE \E l \in listing : l.type = "802-11-wireless" /\ l.name = s

CommandKind(exists) ==
    IF exists THEN "connection_up"
    ELSE IF op = "open" THEN "wifi_connect"
    ELSE "wifi_connect_password"

ConnectIssue ==
    /\ pc = "c_cmd"
    /\ \E listing \in SavedListings, popen_ok \in BOOLEAN :
         LET exists == connection_exists(listing, arg.ssid) IN
         IF op = "secured" /\ ~exists
            /\ (arg.password = NULL \/ is_string_empty(arg.password))
         THEN /\ Finish(WTERM_ERROR_INVALID_INPUT, "CONN_ERROR_NONE", FALSE,
                        "no_password")
              /\ UNCHANGED <<loc, sim, tick>>
         ELSE IF op = "secured" /\ ~exists
                 /\ ~shell_escape(arg.password, ESCAPED_PASSWORD_SIZE).ok
         THEN /\ Finish(WTERM_ERROR_INVALID_INPUT, "CONN_ERROR_NONE", FALSE,
                        "escape_failed")
              /\ UNCHANGED <<loc, sim, tick>>
         ELSE IF ~popen_ok
         THEN /\ Finish(WTERM_ERROR_NETWORK,
                        "CONN_ERROR_NETWORKMANAGER_NOT_RUNNING", FALSE,
                        "popen_failed")
              /\ UNCHANGED <<loc, sim, tick>>
         ELSE /\ obs' = [obs EXCEPT !.nConnectCmds = @ + 1,
                                    !.cmdKind = CommandKind(exists),
                                    !.savedWifi =
                                       \E l \in listing :
                                          /\ l.name = arg.ssid
                                          /\ l.type = "802-11-wireless",
                                    !.extIssued = TRUE]
              /\ loc' = [loc EXCEPT !.i = 0]
              /\ pc' = "x_wait"
              /\ result' = result
              /\ tick' = 0
              /\ \/ sim' = sim
                 \/ sim.mode /\ sim' = [sim EXCEPT !.up = TRUE, !.at = 0]
    /\ UNCHANGED <<connection_cancelled, ret, op, arg, status>>
    /\ UNCHANGED otherVars

(***************************************************************************)
(* execute_nmcli_connect: the wait and the polling loop (lines 106-228)    *)
(***************************************************************************)
SleepLimit ==
    CASE pc = "cz_sleep1" -> CleanupSleepTicks
      [] pc = "cz_sleep2" -> CleanupSleepTicks
      [] pc = "cz_sleep3" -> CleanupSettleTicks
      [] pc = "x_wait"    -> InitialWaitTicks
      [] pc = "x_sleep"   -> SleepTicks
      [] OTHER            -> 0

\* one nanosleep(100 ms) of a cancellable sleep loop
NanosleepStep ==
    /\ pc \in {"cz_sleep1", "cz_sleep2", "cz_sleep3", "x_wait", "x_sleep"}
    /\ ~is_connection_cancelled
    /\ IF pc = "x_sleep"
       THEN loc.j < SleepLimit /\ loc' = [loc EXCEPT !.j = @ + 1]
       ELSE loc.i < SleepLimit /\ loc' = [loc EXCEPT !.i = @ + 1]
    /\ Sleep(1)
    /\ UNCHANGED <<connection_cancelled, pc, ret, op, arg, result, status, obs>>
    /\ UNCHANGED otherVars

\* lines 114-125
WaitDone ==
    /\ pc = "x_wait"
    /\ ~(loc.i < InitialWaitTicks /\ ~is_connection_cancelled)
    /\ IF is_connection_cancelled
       THEN Finish(WTERM_ERROR_CANCELLED, "CONN_ERROR_NONE", FALSE, "cancel_wait")
            /\ loc' = loc
       ELSE pc' = "x_poll" /\ loc' = [loc EXCEPT !.i = 0]
            /\ UNCHANGED <<result, obs>>
    /\ UNCHANGED <<connection_cancelled, ret, op, arg, status, sim, tick>>
    /\ UNCHANGED otherVars

\* for (int i = 0; i < 13; i++)
PollLoopCond_mut(i) == i < PollIterations + 1
PollLoopCond(i) == i < PollIterations

\* lines 213-224; exit_code and error_output are what pclose and the fgets
\* loop of lines 92-104 left, first read here
FallThroughError(exit_code, error_output) ==
    IF exit_code # 0 /\ Len(error_output) > 0
    THEN parse_nmcli_error(error_output)
    ELSE "CONN_ERROR_TIMEOUT"

\* lines 127-135 and 213-227: loop test, cancel test, status call
PollTop ==
    /\ pc = "x_poll"
    /\ IF ~PollLoopCond(loc.i)
       THEN /\ \E out \in CmdOutcomes :
                   Finish(WTERM_ERROR_NETWORK,
                          FallThroughError(out.exit_code, out.error_output),
                          FALSE, "timeout")
            /\ UNCHANGED <<status, ret>>
       ELSE IF is_connection_cancelled
       THEN /\ Finish(WTERM_ERROR_CANCELLED, "CONN_ERROR_NONE", FALSE,
                      "cancel_poll")
            /\ UNCHANGED <<status, ret>>
       ELSE /\ CallStatus("x_check")
            /\ obs' = [obs EXCEPT !.pollView = NoView]
            /\ result' = result
    /\ UNCHANGED <<connection_cancelled, op, arg, loc, sim, tick>>
    /\ UNCHANGED otherVars

\* line 152: the kernel names the target
IwMatches(iw, target) ==
    iw.rc = WTERM_SUCCESS /\ Len(iw.ssid) > 0 /\ iw.ssid = target

\* interface_has_ip_address is not called
NoIpAnswer == [rc |-> WTERM_ERROR_GENERAL, has_ip |-> FALSE]

FallbackSuccessMut(iw, ip, target) == IwMatches(iw, target)

\* lines 149-163: kernel association to the target and an IP address
FallbackSuccess(iw, ip, target) ==
    /\ IwMatches(iw, target)
    /\ ip.rc = WTERM_SUCCESS /\ ip.has_ip

\* lines 137-163; status is not read after line 137
PollCheck ==
    /\ pc = "x_check"
    /\ IF status.is_connected /\ status.connected_ssid = arg.ssid
       THEN /\ result' = [result |-> WTERM_SUCCESS,
                          error_type |-> "CONN_ERROR_NONE", connected |-> TRUE]
            /\ pc' = "done"
            /\ status' = status
            /\ obs' = [obs EXCEPT !.exitPath = "nm_success",
                         !.pollView = [NoView EXCEPT !.nm = TRUE,
                                         !.nmSsid = status.connected_ssid]]
       ELSE \E iw \in IwSsidAnswers :
            \E ip \in IF IwMatches(iw, arg.ssid) THEN IpAnswers ELSE {NoIpAnswer} :
              LET view == [nm |-> status.is_connected,
                           nmSsid |-> status.connected_ssid,
                           iwOk |-> iw.rc = WTERM_SUCCESS,
                           iwSsid |-> iw.ssid,
                           ipOk |-> ip.rc = WTERM_SUCCESS,
                           hasIp |-> ip.has_ip]
              IN IF FallbackSuccess(iw, ip, arg.ssid)
                 THEN /\ result' = [result |-> WTERM_SUCCESS,
                                    error_type |-> "CONN_ERROR_NONE",
                                    connected |-> TRUE]
                      /\ pc' = "done"
                      /\ status' = status
                      /\ obs' = [obs EXCEPT !.exitPath = "iw_success",
                                            !.pollView = view]
                 ELSE /\ pc' = "x_prof"
                      /\ result' = result
                      /\ status' = ZeroStatus
                      /\ obs' = [obs EXCEPT !.queried = {},
                                            !.kernelReport = FALSE]
    /\ UNCHANGED <<connection_cancelled, ret, op, arg, loc, sim, tick>>
    /\ UNCHANGED otherVars

\* line 183: strstr(name, ssid) != NULL
ProfileMatches(name, target) == StrStr(name, target)

\* lines 172-194: the first line whose name matches and whose state is
\* activated or deactivat* ends the scan
RECURSIVE ScanFailed(_, _, _)
ScanFailed(listing, k, target) ==
    IF k > Len(listing) THEN FALSE
    ELSE IF ProfileMatches(listing[k].name, target)
              /\ listing[k].state = St_activated
    THEN FALSE
    ELSE IF ProfileMatches(listing[k].name, target)
              /\ StrStr(listing[k].state, P_deactivat)
    THEN TRUE
    ELSE ScanFailed(listing, k + 1, target)

\* lines 165-205
PollProfiles ==
    /\ pc = "x_prof"
    /\ \E popen_ok \in BOOLEAN :
       \E listing \in IF popen_ok THEN ProfileListings ELSE {<<>>} :
         IF popen_ok /\ ScanFailed(listing, 1, arg.ssid)
         THEN /\ result' = [result |-> WTERM_ERROR_NETWORK,
                            error_type |-> "CONN_ERROR_AUTH_FAILED",
                            connected |-> FALSE]
              /\ pc' = "done"
              /\ obs' = [obs EXCEPT !.exitPath = "deactivated",
                                    !.listing = listing]
              /\ loc' = loc
         ELSE /\ pc' = "x_sleep"
              /\ loc' = [loc EXCEPT !.j = 0]
              /\ UNCHANGED <<result, obs>>
    /\ UNCHANGED <<connection_cancelled, ret, op, arg, status, sim, tick>>
    /\ UNCHANGED otherVars

\* the end of the inner sleep loop (line 208) and i++
PollSleepDone ==
    /\ pc = "x_sleep"
    /\ ~(loc.j < SleepTicks /\ ~is_connection_cancelled)
    /\ loc' = [loc EXCEPT !.i = @ + 1, !.j = 0]
    /\ pc' = "x_poll"
    /\ UNCHANGED <<connection_cancelled, ret, op, arg, result, status, obs, sim, tick>>
    /\ UNCHANGED otherVars

(***************************************************************************)
(* The controlling thread                                                  *)
(***************************************************************************)
InPollIteration ==
    /\ \/ pc \in {"x_poll", "x_check", "x_prof", "x_sleep"}
       \/ ret = "x_check"
    /\ PollLoopCond(loc.i)

\* request_connection_cancel(), once per attempt (tui_interface.c:926-931)
RequestCancel ==
    /\ op \in {"open", "secured"}
    /\ arg.caller = "api"
    /\ pc \notin {"idle", "done"}
    /\ ~obs.cancelRequested
    /\ connection_cancelled' = 1
    /\ obs' = [obs EXCEPT !.cancelRequested = TRUE,
                          !.cancelAt = IF InPollIteration THEN loc.i ELSE -1]
    /\ UNCHANGED <<pc, ret, op, arg, result, status, loc, sim, tick>>
    /\ UNCHANGED otherVars

\* the caller takes the result; the next call starts from idle
Return ==
    /\ pc = "done"
    /\ pc' = "idle"
    /\ op' = "none"
    /\ arg' = NoArg
    /\ ret' = "none"
    /\ status' = ZeroStatus
    /\ Fresh
    /\ UNCHANGED connection_cancelled
    /\ UNCHANGED otherVars

(***************************************************************************)
(* handle_connect_action and connection_thread_func (tui_interface.c)      *)
(***************************************************************************)
\* lines 884-909: thread_data = {0}, pthread_create; the worker calls the
\* entry point its flags select (lines 35-43): an open network, a saved
\* profile (empty password) or the password typed in the modal
HandleConnectAction ==
    /\ pc = "idle"
    /\ ui.phase = "list"
    /\ \E kind \in {"open", "saved", "typed"} :
         /\ op' = IF kind = "open" THEN "open" ELSE "secured"
         /\ \E p \in IF kind = "open" THEN {NULL}
                      ELSE IF kind = "saved" THEN {<<>>} ELSE TypedPasswords :
              arg' = [ssid |-> SsidA, password |-> p, security |-> NULL,
                      caller |-> "tui"]
    /\ pc' = "c_validate"
    /\ ret' = "none"
    /\ status' = ZeroStatus
    /\ Fresh
    /\ ui' = [NoUi EXCEPT !.phase = "wait"]
    /\ UNCHANGED <<connection_cancelled, fn, eq, hs, sel>>

\* lines 924-932: ESC or Ctrl-C read by tb_peek_event while the loop runs
TuiCancel ==
    /\ ui.phase = "wait"
    /\ ~ui.cancelled_by_user
    /\ connection_cancelled' = 1
    /\ ui' = [ui EXCEPT !.cancelled_by_user = TRUE]
    /\ obs' = [obs EXCEPT !.cancelRequested = TRUE,
                          !.cancelAt = IF InPollIteration THEN loc.i ELSE -1]
    /\ UNCHANGED <<pc, ret, op, arg, result, status, loc, sim, tick, fn, eq,
                   hs, sel>>

\* the connect call has returned into connection_thread_func: its locals are
\* gone, and of its history only the way it ended is kept
CallReturned ==
    /\ pc = "done"
    /\ loc' = ZeroLoc
    /\ status' = ZeroStatus
    /\ tick' = 0
    /\ obs' = [ZeroObs EXCEPT !.exitPath = obs.exitPath,
                              !.cancelRequested = obs.cancelRequested]
    /\ UNCHANGED <<connection_cancelled, pc, ret, op, arg, result, sim, fn, eq,
                   hs, sel>>

\* lines 36-40: data->result = connect_to_...(); result holds what the call
\* returned.  The store is a plain one and the flag's is volatile, so the
\* build may make them visible in either order.
WorkerStoreResult ==
    /\ ui.phase \in {"wait", "join"}
    /\ CallReturned
    /\ ~ui.stored
    /\ ui' = [ui EXCEPT !.stored = TRUE]

\* line 46: data->is_done = 1
WorkerSetDone ==
    /\ ui.phase \in {"wait", "join"}
    /\ CallReturned
    /\ ui.is_done = 0
    /\ ui' = [ui EXCEPT !.is_done = 1]

\* line 48: the thread function returns
WorkerExit ==
    /\ ui.phase \in {"wait", "join"}
    /\ ui.stored /\ ui.is_done = 1
    /\ ~ui.exited
    /\ ui' = [ui EXCEPT !.exited = TRUE]
    /\ UNCHANGED <<connVars, fn, eq, hs, sel>>

\* line 912: while (!thread_data.is_done) ends
UiLoopExit ==
    /\ ui.phase = "wait"
    /\ ui.is_done # 0
    /\ ui' = [ui EXCEPT !.phase = "join"]
    /\ UNCHANGED <<connVars, fn, eq, hs, sel>>

\* pthread_join returns once the worker has terminated
pthread_join_mut(u) == TRUE
pthread_join(u) == u.exited

\* lines 937-940: pthread_join, then conn_result = thread_data.result; used
\* is what the UI takes: the stored result, or the zeroes of line 886 if the
\* worker's store is not there yet
UiJoinAndRead ==
    /\ ui.phase = "join"
    /\ pthread_join(ui)
    /\ ui' = [ui EXCEPT !.phase = "result",
                        !.used = [written |-> ui.stored,
                                  value |-> IF ui.stored THEN result
                                            ELSE ZeroResult]]
    /\ UNCHANGED <<connVars, fn, eq, hs, sel>>

\* lines 942-961: the outcome is shown and the list is back
UiShowResult ==
    /\ ui.phase = "result"
    /\ pc' = "idle"
    /\ op' = "none"
    /\ arg' = NoArg
    /\ ret' = "none"
    /\ status' = ZeroStatus
    /\ Fresh
    /\ ui' = NoUi
    /\ UNCHANGED <<connection_cancelled, fn, eq, hs, sel>>

(***************************************************************************)
(* The hotspot manager (hotspot_manager.c)                                 *)
(***************************************************************************)
MAX_HOTSPOTS == 16
WTERM_ERROR_MEMORY == 4
HOTSPOT_SHARE_NONE == 0
HOTSPOT_SHARE_NAT == 1
WIFI_SECURITY_NONE == 0
WIFI_SECURITY_WPA2 == 3
MAX_CHANNEL == 165
IPTABLES_DELETE_ATTEMPTS == 10

\* hotspot_delete_config calls drawn in one run of the model
MaxDeletes == 1
\* writes of a configuration file that fail in one run of the model
MaxSaveFailures == 1

\* A hotspot name is a number: 0 is the empty string, and name n is the n-th
\* of the names in the order "ls /tmp/wterm_hotspots/*.conf" lists them.
HsNames == 1..(MAX_HOTSPOTS + 1)

\* the configuration the callers build for name n (hotspot_get_default_config
\* and the wizard): every sharing method occurs, name 1 asks for the 5GHz
\* band and name 2 is an old configuration without gateway_ip
HsConfig(n) ==
    [name |-> n, ssid |-> <<"s">>, password |-> Rep("p", WPA_MIN_LEN),
     wifi_interface |-> "wlan0",
     gateway_ip |-> IF n = 2 THEN "" ELSE "192.168.12.1",
     security_type |-> WIFI_SECURITY_WPA2, share_method |-> n % 3,
     channel |-> 6, is_5ghz |-> (n = 1)]

\* the arguments of the three iptables rules of setup_nat_rules (lines 958-992)
\* and of the two deletions by pattern of cleanup_nat_rules (lines 1029-1055)
MasqRule(subnet) ==
    <<"-t", "nat", "POSTROUTING", "-s", subnet, "!", "-d", subnet, "-j",
      "MASQUERADE">>
ForwardOutRule(hotspot_iface, inet_iface) ==
    <<"FORWARD", "-i", hotspot_iface, "-o", inet_iface, "-j", "ACCEPT">>
ForwardInRule(hotspot_iface, inet_iface) ==
    <<"FORWARD", "-i", inet_iface, "-o", hotspot_iface, "-m", "state",
      "--state", "RELATED,ESTABLISHED", "-j", "ACCEPT">>
DelForwardRule(hotspot_iface) ==
    <<"FORWARD", "-i", hotspot_iface, "-j", "ACCEPT">>
DelForwardInRule(hotspot_iface) ==
    <<"FORWARD", "-o", hotspot_iface, "-m", "state", "--state",
      "RELATED,ESTABLISHED", "-j", "ACCEPT">>

\* the kernel's tables: how many copies of each rule specification they hold.
\* iptables -C and -D match a rule by its whole specification.
FwRules ==
    {MasqRule("192.168.12.1"), MasqRule(""), ForwardOutRule("wlan0", "eth0"),
     ForwardInRule("wlan0", "eth0"), DelForwardRule("wlan0"),
     DelForwardInRule("wlan0")}

NoHsCall == [op |-> "none", name |-> 0, ret |-> WTERM_SUCCESS, before |-> <<>>,
             fw |-> [r \in FwRules |-> 0], share |-> -1, root |-> FALSE]

NoHotspot ==
    [manager_initialized |-> FALSE, saved_configs |-> <<>>, files |-> {},
     fw |-> [r \in FwRules |-> 0], flow |-> "none", deletes |-> 0,
     failures |-> 0, last |-> NoHsCall]

\* the loops of lines 109-113, 136-141, 279-284 and 482-487: index of the
\* first entry with the name, 0 when there is none
FindConfig(list, name) ==
    IF \E k \in 1..Len(list) : list[k].name = name
    THEN CHOOSE k \in 1..Len(list) :
             /\ list[k].name = name
             /\ \A j \in 1..(k - 1) : list[j].name # name
    ELSE 0

RemoveAtMut(list, k) == SubSeq(list, 1, Len(list) - 1)

\* lines 493-497: the entries behind found_index move up by one
RemoveAt(list, k) ==
    [j \in 1..(Len(list) - 1) |-> IF j < k THEN list[j] ELSE list[j + 1]]

\* load_all_configs: the files in the order ls prints them, MAX_HOTSPOTS at most
RECURSIVE load_all_configs(_, _)
load_all_configs(files, list) ==
    IF files = {} \/ Len(list) >= MAX_HOTSPOTS THEN list
    ELSE LET f == CHOOSE x \in files : \A y \in files : x.name <= y.name
         IN load_all_configs(files \ {f},
                             IF f.name # 0 THEN Append(list, f) ELSE list)

hotspot_validate_config(config) ==
    IF config.name = 0 THEN WTERM_ERROR_INVALID_INPUT
    ELSE IF config.ssid = <<>> THEN WTERM_ERROR_INVALID_INPUT
    ELSE IF Len(config.ssid) > SSID_MAX_BYTES THEN WTERM_ERROR_INVALID_INPUT
    ELSE IF /\ config.security_type # WIFI_SECURITY_NONE
            /\ \/ config.password = <<>>
               \/ Len(config.password) < WPA_MIN_LEN
               \/ Len(config.password) > WPA_MAX_LEN
         THEN WTERM_ERROR_INVALID_INPUT
    ELSE IF config.wifi_interface = "" THEN WTERM_ERROR_INVALID_INPUT
    ELSE IF config.channel < 0 \/ config.channel > MAX_CHANNEL
         THEN WTERM_ERROR_INVALID_INPUT
    ELSE WTERM_SUCCESS

\* hotspot_save_config_to_file / write_config_file: fopen(path, "w") replaces
\* the file of that name
WriteConfigFile(files, config) ==
    {f \in files : f.name # config.name} \cup {config}

\* hotspot_manager_init (lines 45-62); dirs_ok is ensure_directories_exist
hotspot_manager_init(h, dirs_ok) ==
    IF h.manager_initialized THEN h
    ELSE IF ~dirs_ok THEN h
    ELSE [h EXCEPT !.saved_configs = load_all_configs(h.files, <<>>),
                   !.manager_initialized = TRUE]

\* hotspot_manager_cleanup (lines 64-76); its hotspot_stop(NULL) takes the
\* active connections down and touches no iptables rule
hotspot_manager_cleanup(h) ==
    IF ~h.manager_initialized THEN h
    ELSE [h EXCEPT !.saved_configs = <<>>, !.manager_initialized = FALSE]

\* hotspot_create_config (lines 78-125): the state it leaves and its result;
\* unsupported is the answer of the 5GHz check, save_ok that of fopen
hotspot_create_config(h, config, unsupported, save_ok) ==
    IF ~h.manager_initialized THEN [h |-> h, ret |-> WTERM_ERROR_GENERAL]
    ELSE IF config.name = 0 \/ config.ssid = <<>>
         THEN [h |-> h, ret |-> WTERM_ERROR_INVALID_INPUT]
    ELSE IF hotspot_validate_config(config) # WTERM_SUCCESS
         THEN [h |-> h, ret |-> hotspot_validate_config(config)]
    ELSE IF config.is_5ghz /\ unsupported
         THEN [h |-> h, ret |-> WTERM_ERROR_GENERAL]
    ELSE IF FindConfig(h.saved_configs, config.name) # 0
         THEN [h |-> h, ret |-> WTERM_ERROR_GENERAL]
    ELSE IF Len(h.saved_configs) >= MAX_HOTSPOTS
         THEN [h |-> h, ret |-> WTERM_ERROR_MEMORY]
    ELSE [h |-> [h EXCEPT !.saved_configs = Append(@, config),
                          !.files = IF save_ok THEN WriteConfigFile(@, config)
                                    ELSE @,
                          !.failures = IF save_ok THEN @ ELSE @ + 1],
          ret |-> IF save_ok THEN WTERM_SUCCESS ELSE WTERM_ERROR_GENERAL]

\* hotspot_delete_config (lines 467-518)
hotspot_delete_config(h, name) ==
    IF ~h.manager_initialized
    THEN [h |-> h, ret |-> WTERM_ERROR_INVALID_INPUT]
    ELSE LET found_index == FindConfig(h.saved_configs, name) IN
         IF found_index # 0
         THEN [h |-> [h EXCEPT !.saved_configs = RemoveAt(@, found_index),
                               !.files = {f \in @ : f.name # name}],
               ret |-> WTERM_SUCCESS]
         ELSE [h |-> h, ret |-> WTERM_ERROR_GENERAL]

\* setup_nat_rules (lines 935-998): each rule is appended unless iptables -C
\* finds it; root is geteuid() == 0, add_ok the exit of the MASQUERADE append
setup_nat_rules(fw, hotspot_iface, inet_iface, subnet, root, add_ok) ==
    IF ~root THEN fw
    ELSE IF fw[MasqRule(subnet)] = 0 /\ ~add_ok THEN fw
    ELSE LET Add(t, r) == IF t[r] > 0 THEN t ELSE [t EXCEPT ![r] = @ + 1] IN
         Add(Add(Add(fw, MasqRule(subnet)),
                 ForwardOutRule(hotspot_iface, inet_iface)),
             ForwardInRule(hotspot_iface, inet_iface))

\* cleanup_nat_rules (lines 1003-1058): one -D of the MASQUERADE rule, then up
\* to ten -D of each of the two FORWARD specifications
cleanup_nat_rules(fw, hotspot_iface, subnet, root) ==
    IF ~root THEN fw
    ELSE LET Del(t, r, n) ==
                 [t EXCEPT ![r] = IF @ > n THEN @ - n ELSE 0] IN
         Del(Del(Del(fw, MasqRule(subnet), 1),
                 DelForwardRule(hotspot_iface), IPTABLES_DELETE_ATTEMPTS),
             DelForwardInRule(hotspot_iface), IPTABLES_DELETE_ATTEMPTS)

\* line 242: the test that guards the NAT set-up
StartSetsUpNat(share_method) ==
    share_method = HOTSPOT_SHARE_NAT \/ share_method = HOTSPOT_SHARE_NONE

\* the record of a finished call: the list before a create or a delete, the
\* tables before a start
HsCall(o, n, r, h, share, root) ==
    [op |-> o, name |-> n, ret |-> r,
     before |-> IF o \in {"create", "delete"} THEN h.saved_configs ELSE <<>>,
     fw |-> IF o = "start" THEN h.fw ELSE NoHsCall.fw,
     share |-> share, root |-> root]

hsRest == <<connVars, fn, eq, ui, sel>>

CallHotspotManagerInit ==
    /\ hs.flow = "none"
    /\ \E dirs_ok \in BOOLEAN :
         hs' = [hotspot_manager_init(hs, dirs_ok) EXCEPT !.last = NoHsCall]
    /\ UNCHANGED hsRest

CallHotspotManagerCleanup ==
    /\ hs.flow = "none"
    /\ hs' = [hotspot_manager_cleanup(hs) EXCEPT !.last = NoHsCall]
    /\ UNCHANGED hsRest

\* the hotspots the start and stop calls of the model name: one of each
\* sharing method, and one that does not exist
StartNames == {1, 2, 3, MAX_HOTSPOTS + 1}

\* the names worth creating: the empty one, the first and the last of the
\* list (duplicates) and the first name not yet in the list
CreateNames(list) ==
    {0} \cup {list[k].name : k \in {1, Len(list)} \cap DOMAIN list}
        \cup {n \in HsNames :
                 /\ FindConfig(list, n) = 0
                 /\ \A m \in 1..(n - 1) : FindConfig(list, m) # 0}

\* a name's configuration and the ones hotspot_validate_config refuses
CreateConfigs(n) ==
    {HsConfig(n),
     [HsConfig(n) EXCEPT !.ssid = <<>>],
     [HsConfig(n) EXCEPT !.ssid = Rep("s", SSID_MAX_BYTES + 1)],
     [HsConfig(n) EXCEPT !.password = <<>>],
     [HsConfig(n) EXCEPT !.password = Rep("p", WPA_MIN_LEN - 1)],
     [HsConfig(n) EXCEPT !.wifi_interface = ""],
     [HsConfig(n) EXCEPT !.channel = MAX_CHANNEL + 1]}

CallHotspotCreateConfig ==
    /\ hs.flow = "none"
    /\ \E n \in CreateNames(hs.saved_configs), save_ok \in BOOLEAN :
         /\ ~save_ok => hs.failures < MaxSaveFailures /\ n \in StartNames
         /\ \E config \in CreateConfigs(n), unsupported \in BOOLEAN :
              /\ unsupported => config.is_5ghz
              /\ ~save_ok => config = HsConfig(n)
              /\ LET r == hotspot_create_config(hs, config, unsupported,
                                                save_ok)
                 IN hs' = [r.h EXCEPT !.last =
                             HsCall("create", n, r.ret, hs,
                                    config.share_method, FALSE)]
    /\ UNCHANGED hsRest

\* the names worth deleting: the first, the second and the last of the list,
\* and one that is not in it
DeleteNames(list) ==
    {list[k].name : k \in {1, 2, Len(list)} \cap DOMAIN list}
        \cup {MAX_HOTSPOTS + 1}

CallHotspotDeleteConfig ==
    /\ hs.flow = "none"
    /\ hs.deletes < MaxDeletes
    /\ \E name \in DeleteNames(hs.saved_configs) :
         LET r == hotspot_delete_config(hs, name) IN
         hs' = [r.h EXCEPT !.deletes = @ + 1,
                           !.last = HsCall("delete", name, r.ret, hs, -1, FALSE)]
    /\ UNCHANGED hsRest

\* what the system answers during one hotspot_start: save_ok is the fopen of
\* the configuration file, exists, add_ok and up_ok are the exits of the nmcli
\* commands, route_ok is get_default_route_interface, root is geteuid() == 0,
\* masq_ok the exit of the MASQUERADE append; an answer that is not asked for
\* stays TRUE
StartEnvs ==
    {e \in [save_ok : BOOLEAN, exists : BOOLEAN, add_ok : BOOLEAN,
            up_ok : BOOLEAN, route_ok : BOOLEAN, root : BOOLEAN,
            masq_ok : BOOLEAN] :
        /\ e.exists => e.add_ok
        /\ ~e.add_ok => e.up_ok
        /\ ~e.up_ok => e.route_ok
        /\ ~e.route_ok => e.root
        /\ ~e.root => e.masq_ok
        /\ ~e.masq_ok => e.add_ok /\ e.up_ok /\ e.route_ok /\ e.root
        /\ ~e.root => e.add_ok /\ e.up_ok /\ e.route_ok
        /\ ~e.route_ok => e.add_ok /\ e.up_ok
        /\ ~e.up_ok => e.add_ok}

\* hotspot_start (lines 127-268)
hotspot_start(h, name, e) ==
    IF ~h.manager_initialized THEN [h |-> h, ret |-> WTERM_ERROR_INVALID_INPUT]
    ELSE LET k == FindConfig(h.saved_configs, name) IN
    IF k = 0 THEN [h |-> h, ret |-> WTERM_ERROR_GENERAL]
    ELSE LET config == IF h.saved_configs[k].gateway_ip = ""
                       THEN [h.saved_configs[k] EXCEPT
                                !.gateway_ip = "192.168.12.1"]
                       ELSE h.saved_configs[k]
             h1 == [h EXCEPT !.saved_configs[k] = config,
                             !.files = IF h.saved_configs[k].gateway_ip = ""
                                          /\ e.save_ok
                                       THEN WriteConfigFile(@, config) ELSE @]
         IN
         IF ~e.exists /\ ~e.add_ok
         THEN [h |-> h1, ret |-> WTERM_ERROR_NETWORK]
         ELSE IF ~e.up_ok THEN [h |-> h1, ret |-> WTERM_ERROR_NETWORK]
         ELSE IF StartSetsUpNat(config.share_method) /\ e.route_ok
         THEN [h |-> [h1 EXCEPT !.fw =
                         setup_nat_rules(@, config.wifi_interface, "eth0",
                                         config.gateway_ip, e.root, e.masq_ok)],
               ret |-> WTERM_SUCCESS]
         ELSE [h |-> h1, ret |-> WTERM_SUCCESS]

\* hotspot_stop (lines 270-304) of one hotspot (name # 0) or of all (NULL)
hotspot_stop(h, name, root, down_ok) ==
    IF ~h.manager_initialized THEN [h |-> h, ret |-> WTERM_ERROR_GENERAL]
    ELSE LET k == IF name = 0 THEN 0 ELSE FindConfig(h.saved_configs, name)
             code == IF down_ok THEN WTERM_SUCCESS ELSE WTERM_ERROR_NETWORK
         IN
         IF k # 0
         THEN [h |-> [h EXCEPT !.fw =
                        cleanup_nat_rules(@, h.saved_configs[k].wifi_interface,
                                          h.saved_configs[k].gateway_ip, root)],
               ret |-> code]
         ELSE [h |-> h, ret |-> code]

CallHotspotStart ==
    /\ hs.flow = "none"
    /\ \E name \in StartNames, e \in StartEnvs :
         LET r == hotspot_start(hs, name, e)
             k == FindConfig(hs.saved_configs, name)
         IN hs' = [r.h EXCEPT !.last =
                     HsCall("start", name, r.ret, hs,
                            IF k = 0 THEN -1
                            ELSE hs.saved_configs[k].share_method,
                            e.root /\ e.route_ok /\ e.masq_ok)]
    /\ UNCHANGED hsRest

CallHotspotStop ==
    /\ hs.flow = "none"
    /\ \E name \in StartNames \cup {0}, root \in BOOLEAN, down_ok \in BOOLEAN :
         LET r == hotspot_stop(hs, name, root, down_ok) IN
         hs' = [r.h EXCEPT !.last = HsCall("stop", name, r.ret, hs, -1, root)]
    /\ UNCHANGED hsRest

(***************************************************************************)
(* handle_hotspot_create (main.c:367-465) and the wizard (fzf_ui.c)        *)
(***************************************************************************)
\* fzf_select_wifi_interface (fzf_ui.c:174-272): it initializes the manager
\* and every return after that is behind a hotspot_manager_cleanup()
fzf_select_wifi_interface(h, dirs_ok) ==
    LET h1 == hotspot_manager_init(h, dirs_ok) IN
    IF ~h1.manager_initialized THEN h1 ELSE hotspot_manager_cleanup(h1)

\* fzf_create_hotspot_interactive (fzf_ui.c:618-663): step 1 is the selection
\* of the interface; the later steps do not call the manager
fzf_create_hotspot_interactive(h, dirs_ok) == fzf_select_wifi_interface(h, dirs_ok)

\* main.c:377-381
HotspotCreateInit ==
    /\ hs.flow = "none"
    /\ \E dirs_ok \in BOOLEAN :
         LET h1 == hotspot_manager_init(hs, dirs_ok) IN
         hs' = [h1 EXCEPT !.flow = IF h1.manager_initialized THEN "wizard"
                                   ELSE "none",
                          !.last = NoHsCall]
    /\ UNCHANGED hsRest

\* main.c:383-388: the wizard returns a configuration or is cancelled
HotspotCreateWizard ==
    /\ hs.flow = "wizard"
    /\ \E dirs_ok \in BOOLEAN, confirmed \in BOOLEAN :
         LET h1 == fzf_create_hotspot_interactive(hs, dirs_ok) IN
         hs' = IF confirmed
               THEN [h1 EXCEPT !.flow = "create"]
               ELSE [hotspot_manager_cleanup(h1) EXCEPT !.flow = "none"]
    /\ UNCHANGED hsRest

\* main.c:390-464: validation and hotspot_create_config; when that succeeds,
\* "Start hotspot now?" and hotspot_start; hotspot_manager_cleanup() on every
\* way out
HotspotCreateConfig ==
    /\ hs.flow = "create"
    /\ \E n \in {1, 3}, unsupported \in BOOLEAN, save_ok \in BOOLEAN,
          yes \in BOOLEAN, e \in StartEnvs :
         LET config == HsConfig(n)
             r == hotspot_create_config(hs, config, unsupported, save_ok)
             s == IF r.ret = WTERM_SUCCESS /\ yes
                  THEN hotspot_start(r.h, n, e)
                  ELSE r
         IN hs' = [hotspot_manager_cleanup(s.h) EXCEPT
                     !.flow = "none",
                     !.last = HsCall("create", n, r.ret, hs,
                                     config.share_method, FALSE)]
    /\ UNCHANGED hsRest

(***************************************************************************)
(* Specifications                                                          *)
(***************************************************************************)
Init ==
    /\ connection_cancelled = 0
    /\ pc = "idle"
    /\ ret = "none"
    /\ op = "none"
    /\ arg = NoArg
    /\ result = ZeroResult
    /\ status = ZeroStatus
    /\ loc = ZeroLoc
    /\ obs = ZeroObs
    /\ sim = [mode |-> FALSE, up |-> FALSE, at |-> -1]
    /\ tick = 0
    /\ fn = NoCall
    /\ eq = NoQueue
    /\ ui = NoUi
    /\ hs = NoHotspot
    /\ sel = NoPanel

Next ==
    \/ CallGetConnectionStatus
    \/ CallDisconnect
    \/ DisconnectDown
    \/ DisconnectCheck
    \/ DisconnectManage
    \/ DisconnectVerify
    \/ CallConnectOpen
    \/ CallConnectSecured
    \/ HandleFzfConnect
    \/ StatusQueryManager
    \/ StatusQueryKernel
    \/ RecoverUnmanage
    \/ RecoverManage
    \/ StatusRequery
    \/ ConnectValidate
    \/ ConnectInit
    \/ CleanupCheckKernel
    \/ CleanupQueryManager
    \/ CleanupAfterDisconnect
    \/ CleanupAfterUnmanage
    \/ CleanupAfterManage
    \/ CleanupFinal
    \/ ConnectAfterCleanup
    \/ ConnectIssue
    \/ NanosleepStep
    \/ WaitDone
    \/ PollTop
    \/ PollCheck
    \/ PollProfiles
    \/ PollSleepDone
    \/ RequestCancel
    \/ Return

Spec == Init /\ [][Next]_vars

\* the steps of the worker thread inside connect_to_open_network /
\* connect_to_secured_network and after it
WorkerNext ==
    \/ StatusQueryManager
    \/ StatusQueryKernel
    \/ RecoverUnmanage
    \/ RecoverManage
    \/ StatusRequery
    \/ ConnectValidate
    \/ ConnectInit
    \/ CleanupCheckKernel
    \/ CleanupQueryManager
    \/ CleanupAfterDisconnect
    \/ CleanupAfterUnmanage
    \/ CleanupAfterManage
    \/ CleanupFinal
    \/ ConnectAfterCleanup
    \/ ConnectIssue
    \/ NanosleepStep
    \/ WaitDone
    \/ PollTop
    \/ PollCheck
    \/ PollProfiles
    \/ PollSleepDone
    \/ WorkerStoreResult
    \/ WorkerSetDone
    \/ WorkerExit

UiNext ==
    \/ UiLoopExit
    \/ UiJoinAndRead
    \/ UiShowResult

NextTui ==
    \/ HandleConnectAction
    \/ TuiCancel
    \/ WorkerNext
    \/ UiNext

SpecTui == Init /\ [][NextTui]_vars

\* the worker thread is scheduled and every external command returns; the UI
\* loop comes round every 100 ms
SpecTuiLive == SpecTui /\ WF_vars(WorkerNext) /\ WF_vars(UiNext)

(***************************************************************************)
(* The hotspot manager under its callers                                   *)
(***************************************************************************)
NextHotspot ==
    \/ CallHotspotManagerInit
    \/ CallHotspotManagerCleanup
    \/ CallHotspotCreateConfig
    \/ CallHotspotDeleteConfig
    \/ HotspotCreateInit
    \/ HotspotCreateWizard
    \/ HotspotCreateConfig

SpecHotspot == Init /\ [][NextHotspot]_vars

\* starting and stopping the hotspots of three configuration files that
\* earlier runs of wterm have written
InitNat ==
    /\ connection_cancelled = 0
    /\ pc = "idle"
    /\ ret = "none"
    /\ op = "none"
    /\ arg = NoArg
    /\ result = ZeroResult
    /\ status = ZeroStatus
    /\ loc = ZeroLoc
    /\ obs = ZeroObs
    /\ sim = [mode |-> FALSE, up |-> FALSE, at |-> -1]
    /\ tick = 0
    /\ fn = NoCall
    /\ eq = NoQueue
    /\ ui = NoUi
    /\ hs = [NoHotspot EXCEPT !.files = {HsConfig(1), HsConfig(2), HsConfig(3)}]
    /\ sel = NoPanel

NextNat ==
    \/ CallHotspotManagerInit
    \/ CallHotspotManagerCleanup
    \/ CallHotspotStart
    \/ CallHotspotStop

SpecNat == InitNat /\ [][NextNat]_vars

(***************************************************************************)
(* The panels of tui_select_network (tui_interface.c:1233-1466)            *)
(***************************************************************************)
\* most entries a list of the TUI holds in the model
MaxPanelItems == 3
\* lines 1291-1292: a panel is at least 8 rows high
MIN_PANEL_HEIGHT == 8

NoUse == [panel |-> -1, index |-> 0, count |-> 0]

\* lines 1294-1298: both panels start at entry 0; counts are
\* filtered_networks.count and current_hotspots.count
Panels(networks, hotspots) ==
    [running |-> TRUE, active_panel |-> 0, show_help |-> FALSE,
     panels |-> [p \in {0, 1} |->
                   [selected |-> 0, scroll_offset |-> 0,
                    item_count |-> IF p = 0 THEN networks ELSE hotspots]],
     counts |-> [p \in {0, 1} |-> IF p = 0 THEN networks ELSE hotspots],
     used |-> NoUse]

\* move_selection (lines 127-145)
move_selection(panel, direction) ==
    IF panel.item_count = 0 THEN panel
    ELSE LET n == panel.selected + direction
             new_selected == IF n < 0 THEN 0
                             ELSE IF n >= panel.item_count
                                  THEN panel.item_count - 1
                                  ELSE n
             visible_lines == MIN_PANEL_HEIGHT - 2
         IN [panel EXCEPT
               !.selected = new_selected,
               !.scroll_offset =
                   IF new_selected < panel.scroll_offset THEN new_selected
                   ELSE IF new_selected >= panel.scroll_offset + visible_lines
                        THEN new_selected - visible_lines + 1
                        ELSE panel.scroll_offset]

selRest == <<connVars, fn, eq, ui, hs>>

\* tui_select_network is entered with the scanned networks and the hotspots
\* that tui_init has listed
TuiSelectNetwork ==
    /\ sel = NoPanel
    /\ \E networks \in 0..MaxPanelItems, hotspots \in 0..MaxPanelItems :
         sel' = Panels(networks, hotspots)
    /\ UNCHANGED selRest

KeyReady == sel # NoPanel /\ sel.running /\ ~sel.show_help

\* '?', and the key that closes the help (lines 1365-1368, 1402-1403)
KeyHelp ==
    /\ sel # NoPanel /\ sel.running
    /\ sel' = [sel EXCEPT !.show_help = ~@, !.used = NoUse]
    /\ UNCHANGED selRest

\* Tab, 'h', 'l' (lines 1372-1374, 1404-1409)
KeySwitchPanel ==
    /\ KeyReady
    /\ sel' = [sel EXCEPT !.active_panel = (@ + 1) % 2, !.used = NoUse]
    /\ UNCHANGED selRest

\* the arrows, 'j', 'k' (lines 1375-1380, 1450-1453)
KeyMove ==
    /\ KeyReady
    /\ \E direction \in {-1, 1} :
         sel' = [sel EXCEPT
                   !.panels[sel.active_panel] = move_selection(@, direction),
                   !.used = NoUse]
    /\ UNCHANGED selRest

\* 'g' and 'G' (lines 1454-1464)
KeyJump ==
    /\ KeyReady
    /\ \E top \in BOOLEAN :
         LET panel == sel.panels[sel.active_panel]
             visible == MIN_PANEL_HEIGHT - 2
         IN sel' = [sel EXCEPT
                      !.panels[sel.active_panel] =
                          IF top
                          THEN [panel EXCEPT !.selected = 0,
                                             !.scroll_offset = 0]
                          ELSE [panel EXCEPT
                                  !.selected = panel.item_count - 1,
                                  !.scroll_offset =
                                      IF panel.item_count - visible < 0 THEN 0
                                      ELSE panel.item_count - visible],
                      !.used = NoUse]
    /\ UNCHANGED selRest

\* the test in front of every use of the selected entry (lines 1385, 1391,
\* 1412, 1423)
SelectionUsable(count, selected) == count > 0 /\ selected < count

\* Enter and 'c' on the network panel (lines 1383-1389, 1410-1415): the
\* selected network goes to handle_connect_action
KeyConnect ==
    /\ KeyReady
    /\ sel.active_panel = 0
    /\ sel' = [sel EXCEPT !.used =
                 IF SelectionUsable(sel.counts[0], sel.panels[0].selected)
                 THEN [panel |-> 0, index |-> sel.panels[0].selected,
                       count |-> sel.counts[0]]
                 ELSE NoUse]
    /\ UNCHANGED selRest

\* Enter and 'd' on the hotspot panel (lines 1389-1397, 1421-1432): the
\* selected hotspot is toggled or deleted, the list is read again, and after
\* a delete a selection behind the end moves to the last entry
KeyHotspot ==
    /\ KeyReady
    /\ sel.active_panel = 1
    /\ \E delete \in BOOLEAN, count \in 0..MaxPanelItems :
         IF SelectionUsable(sel.counts[1], sel.panels[1].selected)
         THEN sel' = [sel EXCEPT
                 !.used = [panel |-> 1, index |-> sel.panels[1].selected,
                           count |-> sel.counts[1]],
                 !.counts[1] = count,
                 !.panels[1].item_count = count,
                 !.panels[1].selected =
                     IF delete /\ @ >= count /\ count > 0 THEN count - 1
                     ELSE @]
         ELSE sel' = [sel EXCEPT !.used = NoUse]
    /\ UNCHANGED selRest

\* 'n' and 'r' on the hotspot panel (lines 1433-1449): the list is read again
KeyRefresh ==
    /\ KeyReady
    /\ sel.active_panel = 1
    /\ \E count \in 0..MaxPanelItems :
         sel' = [sel EXCEPT !.counts[1] = count,
                            !.panels[1].item_count = count,
                            !.used = NoUse]
    /\ UNCHANGED selRest

\* 'q', and 'r' on the network panel (lines 1400-1401, 1440-1444)
KeyQuit ==
    /\ KeyReady
    /\ sel' = NoPanel
    /\ UNCHANGED selRest

NextPanel ==
    \/ TuiSelectNetwork
    \/ KeyHelp
    \/ KeySwitchPanel
    \/ KeyMove
    \/ KeyJump
    \/ KeyConnect
    \/ KeyHotspot
    \/ KeyRefresh
    \/ KeyQuit

SpecPanel == Init /\ [][NextPanel]_vars

InitSim ==
    /\ connection_cancelled = 0
    /\ pc = "idle"
    /\ ret = "none"
    /\ op = "none"
    /\ arg = NoArg
    /\ result = ZeroResult
    /\ status = ZeroStatus
    /\ loc = ZeroLoc
    /\ obs = ZeroObs
    /\ sim = [mode |-> TRUE, up |-> FALSE, at |-> -1]
    /\ tick = 0
    /\ fn = NoCall
    /\ eq = NoQueue
    /\ ui = NoUi
    /\ hs = NoHotspot
    /\ sel = NoPanel

NextSim ==
    \/ CallSimConnect
    \/ ConnectValidate
    \/ ConnectInit
    \/ CleanupCheckKernel
    \/ ConnectAfterCleanup
    \/ ConnectIssue
    \/ NanosleepStep
    \/ WaitDone
    \/ PollTop
    \/ StatusQueryManager
    \/ StatusQueryKernel
    \/ PollCheck
    \/ PollProfiles
    \/ PollSleepDone
    \/ Return

SpecSim == InitSim /\ [][NextSim]_vars

(***************************************************************************)
(* Calls of the helper functions, one call per step                        *)
(***************************************************************************)
S_WPA1_WPA2 == <<"W", "P", "A", "1", " ", "W", "P", "A", "2">>

\* passwords of every length up to MaxPasswordLen, and the null pointer
FnPasswords == {NULL} \cup {Rep("p", n) : n \in 0..MaxPasswordLen}

\* the security column of a scan line, as parse_network_line stores it
FnSecurities ==
    {NULL, <<>>, S_Open, S_WPA, S_WPA2, S_WPA1_WPA2, S_WEP, S_Enterprise}

CallValidatePassword ==
    /\ fn = NoCall
    /\ \E pw \in FnPasswords, sec \in FnSecurities :
         fn' = [name |-> "validate_password", password |-> pw,
                security |-> sec, ret |-> validate_password(pw, sec)]
    /\ UNCHANGED <<connVars, eq, ui, hs, sel>>

CallNetworkRequiresPassword ==
    /\ fn = NoCall
    /\ \E sec \in FnSecurities :
         fn' = [name |-> "network_requires_password", security |-> sec,
                ret |-> network_requires_password(sec)]
    /\ UNCHANGED <<connVars, eq, ui, hs, sel>>

\* the phrases parse_nmcli_error looks for
KnownPhrases ==
    {P_authentication, P_invalid_key, P_wrong_password, P_psk, P_no_network,
     P_not_found, P_unavailable, P_timeout, P_timed_out, P_permission_denied,
     P_not_authorized, P_wifi, P_disabled, P_off, P_networkmanager, P_nm_dash,
     P_dhcp, P_ip_address}

P_authentication_failed == P_authentication \o <<" ", "f", "a", "i", "l", "e", "d">>
T_other == <<"E", "r", "r", "o", "r", ":", " ", "b", "u", "s", "y">>

ToUpperStr(s) ==
    [k \in 1..Len(s) |->
        IF \E j \in 1..26 : LowerCase[j] = s[k]
        THEN UpperCase[CHOOSE j \in 1..26 : LowerCase[j] = s[k]]
        ELSE s[k]] \o <<>>

\* output of nmcli as execute_nmcli_connect collects it: nothing, an
\* unrelated line, one phrase in either case, two phrases in one text, and a
\* phrase behind filler bytes
ErrorTexts ==
    LET base == KnownPhrases \cup {P_authentication_failed} IN
    {NULL, <<>>, T_other} \cup base
    \cup {ToUpperStr(q) : q \in base}
    \cup {q \o <<" ">> \o r : q \in base, r \in base}
    \cup {Rep("x", n) \o q : n \in {MaxErrPad - 15, MaxErrPad},
                             q \in {P_authentication_failed, P_timed_out}}

CallParseNmcliError ==
    /\ fn = NoCall
    /\ \E text \in ErrorTexts :
         fn' = [name |-> "parse_nmcli_error", text |-> text,
                ret |-> parse_nmcli_error(text)]
    /\ UNCHANGED <<connVars, eq, ui, hs, sel>>

\* the caller has used the result
FnReturn ==
    /\ fn # NoCall
    /\ fn' = NoCall
    /\ UNCHANGED <<connVars, eq, ui, hs, sel>>

\* shell_escape(input, output, output_size) on texts of letters and single
\* quotes, with buffers around the size the escaped text needs; output_null
\* says the second argument is NULL (input_sanitizer.c:12)
CallShellEscape ==
    /\ fn = NoCall
    /\ LET chars == {"a", "'"}
           inputs == {NULL, <<>>} \cup {<<c>> : c \in chars}
                     \cup {<<c, d>> : c \in chars, d \in chars}
                     \cup {<<c, d, e>> : c \in chars, d \in chars, e \in chars}
       IN \E input \in inputs, output_size \in 0..MaxEscapeSize,
             output_null \in BOOLEAN :
            fn' = [name |-> "shell_escape", input |-> input,
                   output_size |-> output_size, output_null |-> output_null,
                   ret |-> IF output_null THEN [ok |-> FALSE, out |-> <<>>]
                           ELSE shell_escape(input, output_size)]
    /\ UNCHANGED <<connVars, eq, ui, hs, sel>>

\* a line of the scan listing, SSID:SECURITY:SIGNAL as nmcli -t prints it and
\* fgets reads it, or a line with fewer colons, or a null argument
CallParseNetworkLine ==
    /\ fn = NoCall
    /\ LET ssids == {<<>>, SsidA, <<"a", " ">>, Rep("A", MAX_STR_SSID - 1),
                     Rep("A", MAX_STR_SSID - 1 + MaxOverlong),
                     Rep("A", MAX_STR_SSID - 2) \o <<" ", "B">>}
           secs == {<<>>, <<" ">>, S_WPA2, S_WPA1_WPA2,
                    Rep("B", MAX_STR_SECURITY - 1),
                    Rep("B", MAX_STR_SECURITY - 1 + MaxOverlong)}
           sigs == {<<>>, <<"7", "5">>, <<"7", "5", "\n">>, <<"7", ":", "5">>,
                    Rep("C", MAX_STR_SIGNAL - 1 + MaxOverlong)}
           lines == {[buffer |-> a \o <<":">> \o b \o <<":">> \o c,
                      fields |-> <<a, b, c>>, network_null |-> FALSE] :
                         a \in ssids, b \in secs, c \in sigs}
                    \cup {[buffer |-> b, fields |-> <<>>, network_null |-> FALSE] :
                             b \in {NULL, <<>>, SsidA, SsidA \o <<":">>}}
                    \cup {[buffer |-> <<"a", ":", ":", "7">>,
                           fields |-> <<SsidA, <<>>, <<"7">> >>,
                           network_null |-> TRUE]}
       IN \E l \in lines :
            fn' = [name |-> "parse_network_line", buffer |-> l.buffer,
                   network_null |-> l.network_null, fields |-> l.fields,
                   ret |-> parse_network_line(l.buffer, l.network_null)]
    /\ UNCHANGED <<connVars, eq, ui, hs, sel>>

(***************************************************************************)
(* The error queue (error_queue.c).  A message is named by the number of   *)
(* the push that brought it, 1, 2, ...; every text fits its 512-byte slot. *)
(***************************************************************************)
\* lines 86-101: the slot at head is written, head advances, and a full
\* queue gives up its oldest entry by advancing tail
error_queue_push_mut(q, m) ==
    [q EXCEPT !.entries[q.head] = m,
              !.head = (q.head + 1) % ERROR_QUEUE_SIZE,
              !.count = IF q.count = ERROR_QUEUE_SIZE THEN q.count
                        ELSE q.count + 1]

error_queue_push(q, m) ==
    [q EXCEPT !.entries[q.head] = m,
              !.head = (q.head + 1) % ERROR_QUEUE_SIZE,
              !.tail = IF q.count = ERROR_QUEUE_SIZE
                       THEN (q.tail + 1) % ERROR_QUEUE_SIZE ELSE q.tail,
              !.count = IF q.count = ERROR_QUEUE_SIZE THEN q.count
                        ELSE q.count + 1]

\* error_queue_init (lines 40-54)
CallErrorQueueInit ==
    /\ ~eq.initialized
    /\ eq' = [eq EXCEPT !.head = 0, !.tail = 0, !.count = 0,
                        !.initialized = TRUE, !.last = [op |-> "none"]]
    /\ UNCHANGED <<connVars, fn, ui, hs, sel>>

\* error_queue_push (lines 75-104) with a non-null message
CallErrorQueuePush ==
    /\ eq.pushed < MaxPushes
    /\ LET m == eq.pushed + 1
           q == IF eq.initialized THEN error_queue_push(eq, m) ELSE eq
       IN eq' = [q EXCEPT !.pushed = m,
                         !.fifo = IF ~eq.initialized THEN @
                                  ELSE IF Len(@) = ERROR_QUEUE_SIZE
                                  THEN Tail(@) \o <<m>>
                                  ELSE Append(@, m),
                         !.last = [op |-> "none"]]
    /\ UNCHANGED <<connVars, fn, ui, hs, sel>>

\* error_queue_pop (lines 120-157) with a buffer that holds the message
CallErrorQueuePop ==
    /\ eq.last.op = "none"
    /\ IF ~eq.initialized \/ eq.count = 0
       THEN eq' = [eq EXCEPT !.last = [op |-> "pop", ok |-> FALSE, msg |-> 0,
                                      before |-> eq.fifo]]
       ELSE eq' = [eq EXCEPT !.tail = (eq.tail + 1) % ERROR_QUEUE_SIZE,
                             !.count = eq.count - 1,
                             !.fifo = Tail(@),
                             !.last = [op |-> "pop", ok |-> TRUE,
                                       msg |-> eq.entries[eq.tail],
                                       before |-> eq.fifo]]
    /\ UNCHANGED <<connVars, fn, ui, hs, sel>>

\* error_queue_clear (lines 159-174)
CallErrorQueueClear ==
    /\ eq.clears < MaxClears
    /\ IF ~eq.initialized
       THEN eq' = [eq EXCEPT !.clears = @ + 1, !.last = [op |-> "none"]]
       ELSE eq' = [eq EXCEPT !.head = 0, !.tail = 0, !.count = 0,
                             !.clears = @ + 1, !.fifo = <<>>,
                             !.last = [op |-> "none"]]
    /\ UNCHANGED <<connVars, fn, ui, hs, sel>>

\* the caller has used what pop returned
QueueReturn ==
    /\ eq.last.op # "none"
    /\ eq' = [eq EXCEPT !.last = [op |-> "none"]]
    /\ UNCHANGED <<connVars, fn, ui, hs, sel>>

NextQueue ==
    \/ CallErrorQueueInit
    \/ CallErrorQueuePush
    \/ CallErrorQueuePop
    \/ CallErrorQueueClear
    \/ QueueReturn

SpecQueue == Init /\ [][NextQueue]_vars

InitFn ==
    /\ Init

NextFn ==
    \/ CallValidatePassword
    \/ CallNetworkRequiresPassword
    \/ CallParseNmcliError
    \/ CallParseNetworkLine
    \/ CallShellEscape
    \/ FnReturn

SpecFn == InitFn /\ [][NextFn]_vars

(***************************************************************************)
(* Properties                                                              *)
(***************************************************************************)
ConnectOp == op \in {"open", "secured"}

\* get_connection_status has just returned status to its caller
ReturnedView ==
    \/ pc \in {"x_check", "d_down", "d_verify"}
    \/ pc = "done" /\ op = "status"

\* C1: the managed-flag toggle is issued only when the kernel reports the
\* interface associated and the manager reports no active WiFi connection,
\* whichever of the three functions issues it.
C1_ToggleOnlyWhenZombie ==
    obs.lastToggle.site # "none" =>
        (obs.lastToggle.kernel /\ ~obs.lastToggle.nm)

\* C2: every view get_connection_status returns has
\* is_zombie = kernel_associated /\ ~is_connected, also after the re-query
\* that follows a recovery.
C2_ZombieIsDerived ==
    ReturnedView =>
        (status.is_zombie = (status.kernel_associated /\ ~status.is_connected))

\* a view returned after a recovery whose re-query found the manager connected
C2_Witness ==
    /\ pc = "done" /\ op = "status"
    /\ obs.lastToggle.site = "get_connection_status"
    /\ status.is_connected /\ status.kernel_associated /\ ~status.is_zombie

\* C3: once the cancel flag is set during an iteration of the polling loop,
\* an attempt that this iteration does not itself end (with success or a
\* deactivated profile) returns WTERM_ERROR_CANCELLED.
C3_CancelDuringPollingCancels ==
    (/\ pc = "done" /\ ConnectOp
     /\ obs.cancelAt # -1
     /\ obs.exitPath \notin {"nm_success", "iw_success", "deactivated"})
    => result.result = WTERM_ERROR_CANCELLED

\* the attempt's timeout in 100 ms intervals: the initial wait and the
\* thirteen one-second rounds
AttemptTimeoutTicks == InitialWaitTicks + PollIterations * SleepTicks

\* C4: when the simulated manager starts reporting the target active N
\* intervals of 100 ms after the connect command, and N is below the
\* attempt's timeout, the attempt returns Success.
C4_SuccessWithinTimeout ==
    (pc = "done" /\ sim.up /\ sim.at < AttemptTimeoutTicks)
    => result.result = WTERM_SUCCESS

\* C5: an attempt returns Success only if, at the poll that ended it, the
\* manager reported an active connection to the target SSID, or the kernel
\* reported association to the target SSID and the interface had an IP
\* address.
C5_SuccessOnlyIfConnected ==
    (pc = "done" /\ ConnectOp /\ result.result = WTERM_SUCCESS) =>
        \/ obs.pollView.nm /\ obs.pollView.nmSsid = arg.ssid
        \/ /\ obs.pollView.iwOk /\ obs.pollView.iwSsid = arg.ssid
           /\ obs.pollView.ipOk /\ obs.pollView.hasIp

\* Success through the fallback while the manager reports nothing
C5_Witness ==
    /\ pc = "done" /\ ConnectOp /\ result.result = WTERM_SUCCESS
    /\ ~obs.pollView.nm
    /\ obs.pollView.iwSsid = arg.ssid /\ obs.pollView.hasIp

\* C6: an attempt with valid input that is not cancelled and whose command
\* could be started has issued exactly one connect command when it ends: a
\* profile activation if a saved WiFi profile exists for the SSID, a fresh
\* connect otherwise.
C6_ExactlyOneConnectCommand ==
    (/\ pc = "done" /\ ConnectOp
     /\ result.result # WTERM_ERROR_INVALID_INPUT
     /\ ~obs.cancelRequested
     /\ obs.exitPath # "popen_failed")
    => /\ obs.nConnectCmds = 1
       /\ (obs.cmdKind = "connection_up") = obs.savedWifi

\* C7: the attempt ends early on a deactivated state only if the profile
\* that reports it is the target's profile.
C7_DeactivatedOnlyForTarget ==
    (pc = "done" /\ obs.exitPath = "deactivated") =>
        \E k \in 1..Len(obs.listing) :
            /\ obs.listing[k].name = arg.ssid
            /\ StrStr(obs.listing[k].state, P_deactivat)

\* C8: whatever source fails, get_connection_status still queries the link
\* layer and reports its answer in the view it returns.
C8_OtherSourcesStillQueried ==
    ReturnedView =>
        /\ "iw" \in obs.queried
        /\ status.kernel_associated = obs.kernelReport

\* C9: a connect command that carries a password is issued only for a
\* password that satisfies the length rule of the network's security class.
C9_PasswordValidatedBeforeCommand ==
    (/\ arg.caller = "fzf"
     /\ obs.nConnectCmds > 0
     /\ obs.cmdKind = "wifi_connect_password")
    => validate_password(arg.password, arg.security)

\* the SSIDs the contract accepts: non-null, not blank, 1 to 32 bytes
SsidAcceptable(s) ==
    /\ s # NULL
    /\ Len(s) \in 1..32
    /\ \E k \in 1..Len(s) : s[k] # " "

\* C10: an SSID that is null, blank or not 1 to 32 bytes long is rejected
\* with WTERM_ERROR_INVALID_INPUT before any external command is issued and
\* before the cancel flag is reset.
C10_BadSsidRejected ==
    (ConnectOp /\ ~SsidAcceptable(arg.ssid)) =>
        /\ pc \in {"c_validate", "done"}
        /\ ~obs.extIssued
        /\ ~obs.cancelReset
        /\ obs.nConnectCmds = 0
        /\ pc = "done" => result.result = WTERM_ERROR_INVALID_INPUT

\* a 33-byte SSID was rejected
C10_Witness ==
    /\ pc = "done" /\ ConnectOp
    /\ arg.ssid # NULL /\ Len(arg.ssid) = 33
    /\ result.result = WTERM_ERROR_INVALID_INPUT
    /\ ~obs.extIssued

\* C11: for a WPA security class validate_password accepts exactly the
\* lengths 8..63, for WEP exactly the lengths 5, 13, 16 and 29, and it
\* rejects a null password whatever the class.
C11_PasswordLengthRule ==
    fn.name = "validate_password" =>
        /\ fn.password = NULL => ~fn.ret
        /\ (fn.password # NULL /\ fn.security \in {S_WPA, S_WPA2, S_WPA1_WPA2})
               => (fn.ret <=> Len(fn.password) \in 8..63)
        /\ (fn.password # NULL /\ fn.security = S_WEP)
               => (fn.ret <=> Len(fn.password) \in {5, 13, 16, 29})

\* a 63-character WPA2 password was accepted
C11_Witness ==
    /\ fn.name = "validate_password"
    /\ fn.security = S_WPA2
    /\ fn.password # NULL /\ Len(fn.password) = 63
    /\ fn.ret

\* C12: for the security values of an open network (the empty field and
\* "Open") network_requires_password is false and validate_password accepts
\* every password, the empty one included.
C12_OpenNeedsNoPassword ==
    /\ (fn.name = "network_requires_password" /\ fn.security \in {<<>>, S_Open})
           => ~fn.ret
    /\ (/\ fn.name = "validate_password"
        /\ fn.security \in {<<>>, S_Open}
        /\ fn.password # NULL)
           => fn.ret

ErrorKinds ==
    {"CONN_ERROR_AUTH_FAILED", "CONN_ERROR_NETWORK_UNAVAILABLE",
     "CONN_ERROR_TIMEOUT", "CONN_ERROR_PERMISSION_DENIED",
     "CONN_ERROR_WIFI_DISABLED", "CONN_ERROR_NETWORKMANAGER_NOT_RUNNING",
     "CONN_ERROR_DHCP_TIMEOUT", "CONN_ERROR_UNKNOWN"}

\* text contains phrase, in any case, within its first n bytes
ContainsIn(text, phrase, n) ==
    /\ text # NULL
    /\ \E k \in 0..(n - Len(phrase)) :
         /\ k + Len(phrase) <= Len(text)
         /\ \A j \in 1..Len(phrase) :
              text[k + j] = phrase[j] \/ text[k + j] = ToUpperStr(phrase)[j]

Contains(text, phrase) ==
    text # NULL /\ ContainsIn(text, phrase, Len(text))

\* C13 as stated: the result is one of the eight kinds; any text containing
\* "authentication failed" is AuthFailed, any text containing "timed out" is
\* Timeout, and a null text or a text with none of the phrases is Unknown.
C13_ClassifiesByPhrase ==
    fn.name = "parse_nmcli_error" =>
        /\ Contains(fn.text, P_authentication_failed)
               => fn.ret = "CONN_ERROR_AUTH_FAILED"
        /\ Contains(fn.text, P_timed_out) => fn.ret = "CONN_ERROR_TIMEOUT"
        /\ (fn.text = NULL \/ \A q \in KnownPhrases : ~Contains(fn.text, q))
               => fn.ret = "CONN_ERROR_UNKNOWN"
        /\ fn.ret \in ErrorKinds

\* C13 amended: only the first 511 bytes of the text are matched, and the
\* phrase groups are tried in a fixed order, so "timed out" gives Timeout
\* only when no authentication phrase and no network-unavailable phrase is
\* present in those bytes.
C13_ClassifiesByPhraseInOrder ==
    fn.name = "parse_nmcli_error" =>
        LET Has(q) == ContainsIn(fn.text, q, 511) IN
        /\ fn.ret \in ErrorKinds
        /\ Has(P_authentication_failed) => fn.ret = "CONN_ERROR_AUTH_FAILED"
        /\ (/\ Has(P_timed_out)
            /\ \A q \in {P_authentication, P_invalid_key, P_wrong_password,
                         P_psk, P_no_network, P_not_found, P_unavailable} :
                   ~Has(q))
               => fn.ret = "CONN_ERROR_TIMEOUT"
        /\ (fn.text = NULL \/ \A q \in KnownPhrases : ~Has(q))
               => fn.ret = "CONN_ERROR_UNKNOWN"

\* an upper-case "TIMED OUT" was classified as Timeout
C13_Witness ==
    /\ fn.name = "parse_nmcli_error"
    /\ fn.text = ToUpperStr(P_timed_out)
    /\ fn.ret = "CONN_ERROR_TIMEOUT"

\* C14: in a connect attempt that has passed SSID validation and started, the
\* cancellation flag is set only if a cancel was requested in this attempt,
\* and the attempt ends as cancelled only if one was: a flag left set by an
\* earlier attempt is cleared before the attempt can observe it.
C14_StaleCancelNeverCancels ==
    ConnectOp /\ pc \notin {"idle", "c_validate", "c_init"} /\ obs.cancelReset =>
        /\ ~obs.cancelRequested => connection_cancelled = 0
        /\ (\/ result.result = WTERM_ERROR_CANCELLED
            \/ loc.cleanup_result = WTERM_ERROR_CANCELLED
            \/ obs.exitPath \in {"cancel_wait", "cancel_poll"})
               => obs.cancelRequested

\* an attempt that found the flag set by an earlier attempt and connected
C14_Witness ==
    /\ ConnectOp
    /\ pc = "done"
    /\ obs.staleCancel
    /\ ~obs.cancelRequested
    /\ result.result = WTERM_SUCCESS
    /\ connection_cancelled = 0

\* C18: a cancel requested by the UI thread once the worker has been started
\* stays set until the attempt finishes; the worker's own reset never erases
\* it.
C18_CancelSurvivesWorkerReset ==
    ConnectOp /\ obs.cancelRequested /\ pc \notin {"idle", "done"} =>
        connection_cancelled = 1

\* C19: a connect attempt that stopped because it observed the cancellation
\* flag, in the zombie-cleanup pre-step, in the initial wait or in the polling
\* loop, returns WTERM_ERROR_CANCELLED.
C19_CancelledExitReturnsCancelled ==
    (/\ ConnectOp
     /\ pc = "done"
     /\ \/ loc.cleanup_result = WTERM_ERROR_CANCELLED
        \/ obs.exitPath \in {"cancel_wait", "cancel_poll"})
        => result.result = WTERM_ERROR_CANCELLED

\* C20: during a connect attempt the managed-flag toggle is issued only by
\* the pre-step; the status polls of the polling loop never toggle the
\* interface.
C20_PollsNeverToggle ==
    ConnectOp =>
        obs.lastToggle.site \in {"none", "cleanup_zombie_before_connect"}

\* C15: the initialized error queue is a first-in-first-out queue of
\* capacity 32 that drops its oldest entry on overflow: the entries from tail
\* on are the messages such a queue holds, oldest first, there are never more
\* than 32, and a pop returns the oldest message, or false when there is
\* none.
C15_QueueIsBoundedFifo ==
    eq.initialized =>
        /\ eq.count <= ERROR_QUEUE_SIZE
        /\ eq.count = Len(eq.fifo)
        /\ \A k \in 1..eq.count :
               eq.entries[(eq.tail + k - 1) % ERROR_QUEUE_SIZE] = eq.fifo[k]
        /\ eq.last.op = "pop" =>
               /\ eq.last.ok = (eq.last.before # <<>>)
               /\ eq.last.ok => eq.last.msg = Head(eq.last.before)

\* a pop after the queue has overflowed: 32 messages were held, the first one
\* pushed was not among them, and the pop returned the oldest one held
C15_Witness ==
    /\ eq.initialized
    /\ eq.last.op = "pop"
    /\ eq.last.ok
    /\ Len(eq.last.before) = ERROR_QUEUE_SIZE
    /\ eq.last.msg > 1
    /\ eq.clears = 0
    /\ eq.pushed > ERROR_QUEUE_SIZE

\* the first n bytes of a field; a field without its trailing white space
Cut(field, n) == IF Len(field) > n THEN SubSeq(field, 1, n) ELSE field
Stripped(field) ==
    LET n == CHOOSE n \in 0..Len(field) :
                 /\ n = 0 \/ field[n] \notin {" ", "\t", "\n"}
                 /\ \A k \in (n + 1)..Len(field) : field[k] \in {" ", "\t", "\n"}
    IN SubSeq(field, 1, n)

\* C16 as stated: a line with at least two colons parses to the text before
\* the first colon, the text between the first two colons ("Open" when that
\* is empty) and the text after the second colon, each cut to its field's
\* capacity; fewer than two colons give WTERM_ERROR_PARSE and a null argument
\* WTERM_ERROR_INVALID_INPUT.
C16_FieldsAreTheColonSeparatedText ==
    fn.name = "parse_network_line" =>
        IF fn.buffer = NULL \/ fn.network_null
        THEN fn.ret.result = WTERM_ERROR_INVALID_INPUT
        ELSE IF fn.fields = <<>>
        THEN fn.ret.result = WTERM_ERROR_PARSE
        ELSE /\ fn.ret.result = WTERM_SUCCESS
             /\ fn.ret.ssid = Cut(fn.fields[1], MAX_STR_SSID - 1)
             /\ fn.ret.security =
                    (IF fn.fields[2] = <<>> THEN S_Open
                     ELSE Cut(fn.fields[2], MAX_STR_SECURITY - 1))
             /\ fn.ret.signal = Cut(fn.fields[3], MAX_STR_SIGNAL - 1)

\* C16 amended: each field is cut to its capacity and then loses its trailing
\* white space; "Open" stands in only for a field of no bytes at all.
C16_FieldsAreCutThenStripped ==
    fn.name = "parse_network_line" =>
        IF fn.buffer = NULL \/ fn.network_null
        THEN fn.ret.result = WTERM_ERROR_INVALID_INPUT
        ELSE IF fn.fields = <<>>
        THEN fn.ret.result = WTERM_ERROR_PARSE
        ELSE /\ fn.ret.result = WTERM_SUCCESS
             /\ fn.ret.ssid = Stripped(Cut(fn.fields[1], MAX_STR_SSID - 1))
             /\ fn.ret.security =
                    (IF fn.fields[2] = <<>> THEN S_Open
                     ELSE Stripped(Cut(fn.fields[2], MAX_STR_SECURITY - 1)))
             /\ fn.ret.signal =
                    Stripped(Cut(fn.fields[3], MAX_STR_SIGNAL - 1))

\* an open network's line as fgets reads it, newline included, was parsed
C16_Witness ==
    /\ fn.name = "parse_network_line"
    /\ fn.fields = <<SsidA, <<>>, <<"7", "5", "\n">> >>
    /\ ~fn.network_null
    /\ fn.ret.result = WTERM_SUCCESS
    /\ fn.ret.security = S_Open
    /\ fn.ret.signal = <<"7", "5">>

\* the text in one pair of single quotes, each single quote of it written as
\* quote, backslash, quote, quote
RECURSIVE QuotedBody(_)
QuotedBody(text) ==
    IF text = <<>> THEN <<>>
    ELSE (IF Head(text) = "'" THEN <<"'", "\\", "'", "'">> ELSE <<Head(text)>>)
         \o QuotedBody(Tail(text))

Quoted(text) == <<"'">> \o QuotedBody(text) \o <<"'">>

\* the word a POSIX shell reads from w: inside single quotes every byte is
\* itself, outside them a backslash makes the next byte itself; <<"<bad>">>
\* when a quote is left open or a bare byte would end or split the word
RECURSIVE ShellRead(_, _, _, _)
ShellRead(w, k, quoted, word) ==
    IF k > Len(w) THEN (IF quoted THEN <<"<bad>">> ELSE word)
    ELSE IF quoted
    THEN IF w[k] = "'" THEN ShellRead(w, k + 1, FALSE, word)
         ELSE ShellRead(w, k + 1, TRUE, Append(word, w[k]))
    ELSE IF w[k] = "'" THEN ShellRead(w, k + 1, TRUE, word)
    ELSE IF w[k] = "\\"
    THEN IF k = Len(w) THEN <<"<bad>">>
         ELSE ShellRead(w, k + 2, FALSE, Append(word, w[k + 1]))
    ELSE <<"<bad>">>

\* C17: when shell_escape returns true its output, with the terminating NUL,
\* fits output_size bytes and is the input in one pair of single quotes with
\* every single quote written as quote, backslash, quote, quote, which a
\* shell reads back as the input; when the escaped form does not fit or an
\* argument is null it returns false.
C17_EscapeQuotesOrRefuses ==
    fn.name = "shell_escape" =>
        /\ fn.ret.ok =>
               /\ fn.input # NULL
               /\ ~fn.output_null
               /\ Len(fn.ret.out) + 1 <= fn.output_size
               /\ fn.ret.out = Quoted(fn.input)
               /\ ShellRead(fn.ret.out, 1, FALSE, <<>>) = fn.input
        /\ (\/ fn.input = NULL
            \/ fn.output_null
            \/ Len(Quoted(fn.input)) + 1 > fn.output_size) => ~fn.ret.ok

\* a text with a single quote in the middle was escaped
C17_Witness ==
    /\ fn.name = "shell_escape"
    /\ fn.input = <<"a", "'", "a">>
    /\ fn.ret.ok
    /\ fn.ret.out = <<"'", "a", "'", "\\", "'", "'", "a", "'">>

\* C21: an attempt started from the TUI comes to its end: the worker checks
\* the status in polls 0..12 only, and a UI that waits in its loop gets to the
\* result of the attempt, whether ESC was pressed or not.
C21_AttemptTerminates ==
    /\ []((pc = "x_check" \/ ret = "x_check") => loc.i < PollIterations)
    /\ ((ui.phase = "wait") ~> (ui.phase = "result"))

\* all thirteen polls ran out, nobody cancelled, and the UI has the timeout
C21_Witness ==
    /\ ui.phase = "result"
    /\ ~ui.cancelled_by_user
    /\ obs.exitPath = "timeout"
    /\ ui.used.value.result = WTERM_ERROR_NETWORK
    /\ ui.used.value.error_type = "CONN_ERROR_TIMEOUT"

C23_CleanupFailureStillConnects ==
    (/\ pc = "done"
     /\ op \in {"open", "secured"}
     /\ loc.cleanup_result = WTERM_ERROR_NETWORK) => obs.nConnectCmds = 1

\* C24: disconnect_current_network returns WTERM_SUCCESS exactly when its
\* final get_connection_status found no active WiFi connection and the iw
\* check after it found no association; otherwise WTERM_ERROR_NETWORK.
C24_DisconnectSuccessMeansVerified ==
    (pc = "done" /\ op = "disconnect") =>
        /\ result.result \in {WTERM_SUCCESS, WTERM_ERROR_NETWORK}
        /\ result.result = WTERM_SUCCESS
              <=> (~status.is_connected /\ ~loc.still_associated)

\* a disconnect that had to reset the device and was then verified
C24_Witness ==
    /\ pc = "done"
    /\ op = "disconnect"
    /\ obs.lastToggle.site = "disconnect_current_network"
    /\ ~status.is_connected
    /\ ~loc.still_associated
    /\ result.result = WTERM_SUCCESS

\* C25: from the hotspot_manager_init of handle_hotspot_create to its
\* hotspot_manager_cleanup the manager is initialized, the wizard included.
C25_ManagerStaysInitialized ==
    hs.flow \in {"wizard", "create"} => hs.manager_initialized

\* C26: a hotspot_create_config that returned an error has left the list of
\* saved configurations as it was.
C26_FailedCreateKeepsList ==
    (/\ hs.last.op = "create"
     /\ hs.last.ret # WTERM_SUCCESS
     /\ hs.manager_initialized) => hs.saved_configs = hs.last.before

\* C27: a hotspot_start of a configuration with HOTSPOT_SHARE_NONE has added
\* no NAT or forwarding rule.
C27_NoSharingNoNat ==
    (hs.last.op = "start" /\ hs.last.share = HOTSPOT_SHARE_NONE) =>
        hs.fw = hs.last.fw

\* C28: no rule is ever in the tables twice, and after hotspot_stop of a saved
\* hotspot, run as root, none of the rules of hotspot_start is left.
C28_StopRemovesWhatStartAdded ==
    /\ \A r \in FwRules : hs.fw[r] <= 1
    /\ (/\ hs.last.op = "stop"
        /\ hs.last.root
        /\ FindConfig(hs.saved_configs, hs.last.name) # 0) =>
           \A r \in FwRules : hs.fw[r] = 0

\* C30: the list never holds more than MAX_HOTSPOTS entries or one name
\* twice, and a delete that succeeded has taken out the entry of that name
\* and nothing else, the others keeping their order; a delete that failed has
\* changed nothing.
C30_ListBoundedUniqueOrdered ==
    LET list == hs.saved_configs
        before == hs.last.before
        Others(c) == c.name # hs.last.name
    IN /\ Len(list) <= MAX_HOTSPOTS
       /\ \A i, j \in 1..Len(list) : i # j => list[i].name # list[j].name
       /\ (hs.last.op = "delete" /\ hs.last.ret = WTERM_SUCCESS) =>
              /\ Len(list) = Len(before) - 1
              /\ list = SelectSeq(before, Others)
       /\ (hs.last.op = "delete" /\ hs.last.ret # WTERM_SUCCESS) =>
              list = before

\* the second of sixteen entries was deleted
C30_Witness ==
    /\ hs.last.op = "delete"
    /\ hs.last.ret = WTERM_SUCCESS
    /\ Len(hs.last.before) = MAX_HOTSPOTS
    /\ hs.last.name = hs.last.before[2].name
    /\ Len(hs.saved_configs) = MAX_HOTSPOTS - 1

\* C29: an entry that Enter, c or d hands to its handler is an entry of the
\* list: 0 <= selected < number of entries.
C29_SelectedInRange ==
    (sel # NoPanel /\ sel.used # NoUse) =>
        (0 <= sel.used.index /\ sel.used.index < sel.used.count)

=============================================================================
